---------------------------- MODULE Spec2Model ----------------------------
(***************************************************************************)
(* A model of vrayformayaUtils: the attribute-group operations of          *)
(* attributes.py and objectProperties of objectProperties.py, run against  *)
(* a small host scene.  The host (maya.cmds) and the renderer command are  *)
(* external; they are modelled by what the calls in the source ask of      *)
(* them.  Every operation is one action: the whole function body, from     *)
(* argument conversion to the last host command.                           *)
(***************************************************************************)
EXTENDS Integers, Sequences, FiniteSets, TLC

VARIABLES
    nodeType,     \* the scene: existing node name -> node type
    selection,    \* the host's active selection (a list of node names)
    groups,       \* set of <<node, group>>: attribute groups a node carries
    attrs,        \* <<node, attribute>> -> value, for attributes that exist
    members,      \* object-properties set node -> set of member nodes
    renderer,     \* how the renderer's objectProperties command behaves
    pre,          \* the scene as it was when the last call started
    call,         \* the last call: arguments, outcome, commands issued
    prev          \* the call before the last one

vars == <<nodeType, selection, groups, attrs, members, renderer, pre, call, prev>>

(***************************************************************************)
(* Bounds of the model.                                                    *)
(***************************************************************************)
\* A call deviates from the all-defaults call (and a host without failures)
\* in at most this many places.
MaxArgs == 2
\* Last position in a call's command sequence at which the host may raise.
MaxFail == 3

None == "None"
\* An optional list argument: Python's None, or a list of node names.
NoneList == [isNone |-> TRUE, items |-> <<>>]
ListOf(l) == [isNone |-> FALSE, items |-> l]

(***************************************************************************)
(* The host scene.  Three DAG nodes (a group, a transform under it and a   *)
(* shape under that), a DG texture-like node and a material assigned to    *)
(* the shape.  The types of the shape and of the DG node are drawn in      *)
(* Init.                                                                   *)
(***************************************************************************)
DagNodes == {"grp", "xf", "shp"}
Nodes == DagNodes \cup {"tex", "mat"}

ShapeTypes == {"mesh", "nurbsSurface", "nurbsCurve", "camera", "ambientLight",
               "directionalLight", "pointLight", "spotLight", "areaLight",
               "VRayLightDomeShape", "VRayLightRectShape", "VRayLightSphereShape"}
TextureTypes == {"file", "VRayPtex", "substance", "imagePlane", "place2dTexture",
                 "samplerInfo"}
MaterialTypes == {"lambert"}

Exists(n) == n \in DOMAIN nodeType
TypeOf(n) == nodeType[n]
IsShape(n) == Exists(n) /\ TypeOf(n) \in ShapeTypes
IsMaterial(n) == Exists(n) /\ TypeOf(n) \in MaterialTypes

\* Parent of a DAG node, None for a root or a DG node.
ParentOf(n) == IF n = "shp" THEN "xf" ELSE IF n = "xf" THEN "grp" ELSE None
\* Children and descendants in hierarchy order.
ChildrenOf(n) == IF n = "grp" THEN <<"xf">> ELSE IF n = "xf" THEN <<"shp">> ELSE <<>>
DescendantsOf(n) == IF n = "grp" THEN <<"xf", "shp">> ELSE ChildrenOf(n)
\* Materials assigned to a node: surfaces carry the scene's material.
AssignedTo(n) ==
    IF Exists(n) /\ TypeOf(n) \in {"mesh", "nurbsSurface"} THEN <<"mat">> ELSE <<>>

(***************************************************************************)
(* Sequence helpers.                                                       *)
(***************************************************************************)
Range(s) == {s[i] : i \in DOMAIN s}

RECURSIVE Concat(_)
Concat(ss) == IF ss = <<>> THEN <<>> ELSE Head(ss) \o Concat(Tail(ss))

RECURSIVE Unique(_)
\* s without repetitions, first occurrences kept.
Unique(s) ==
    IF s = <<>> THEN <<>>
    ELSE LET r == Unique(SubSeq(s, 1, Len(s) - 1))
             x == s[Len(s)]
         IN  IF x \in Range(r) THEN r ELSE Append(r, x)

RECURSIVE UpTo(_, _)
\* Subsets of P with at most k elements.
UpTo(P, k) ==
    IF k <= 0 THEN {{}}
    ELSE LET F == UpTo(P, k - 1) IN F \cup {S \cup {x} : S \in F, x \in P}

(***************************************************************************)
(* Host queries (maya.cmds.ls and listRelatives).  Each keeps the order of *)
(* its input.                                                              *)
(***************************************************************************)
\* mc.ls(sl=1, long=True), mc.ls(sl=1)
LsSelection == selection

\* mc.ls(names, type=types, long=True): the existing nodes among names whose
\* type is one of types.
LsType(names, types) ==
    LET Keep(n) == Exists(n) /\ TypeOf(n) \in Range(types) IN SelectSeq(names, Keep)

\* mc.ls(a, b, long=True): every positional argument is a list of object
\* names; the result is the existing nodes among all of them.
LsNames(a, b) == SelectSeq(a \o b, Exists)

\* mc.ls(names, mat=True)
LsMaterials(names) == SelectSeq(names, IsMaterial)

\* mc.ls(names, s=True, long=True)
LsShapes(names) == SelectSeq(names, IsShape)

\* mc.listRelatives(names, fullPath=True, parent=True)
ListRelativesParent(names) ==
    LET HasParent(n) == ParentOf(n) # None
        kids == SelectSeq(names, HasParent)
    IN  Unique([i \in DOMAIN kids |-> ParentOf(kids[i])])

(***************************************************************************)
(* Resolution helpers of vrayformayaUtils.utils.                           *)
(***************************************************************************)
\* getShapes(nodes, allDescendents, filterType): the shapes among the nodes
\* and among their children (all descendants when allDescendents) whose type
\* is in filterType.
getShapes(nodes, allDescendents, filterType) ==
    LET Below(n) == IF allDescendents THEN DescendantsOf(n) ELSE ChildrenOf(n)
        Cand(n) == IF IsShape(n) THEN <<n>> ELSE Below(n)
        Keep(n) == IsShape(n) /\ TypeOf(n) \in Range(filterType)
        all == Concat([i \in DOMAIN nodes |-> IF Exists(nodes[i]) THEN Cand(nodes[i]) ELSE <<>>])
    IN  Unique(SelectSeq(all, Keep))

\* getMaterials(nodes): the materials among the nodes and those assigned to
\* the nodes.
getMaterials(nodes) ==
    LET Cand(n) == IF IsMaterial(n) THEN <<n>> ELSE AssignedTo(n)
    IN  Unique(Concat([i \in DOMAIN nodes |-> Cand(nodes[i])]))

(***************************************************************************)
(* Python values for the state argument.                                   *)
(***************************************************************************)
PyInt(n) == [kind |-> "int", n |-> n, text |-> ""]
PyBool(b) == [kind |-> "bool", n |-> IF b THEN 1 ELSE 0, text |-> ""]
PyStr(s) == [kind |-> "str", n |-> 0, text |-> s]
PyNone == [kind |-> "NoneType", n |-> 0, text |-> ""]

\* isinstance(v, int) and isinstance(v, bool): bool is a subclass of int.
IsInstanceInt(v) == v.kind \in {"int", "bool"}
IsInstanceBool(v) == v.kind = "bool"

\* int(text) for the strings of the model: decimal digits parse, others raise
\* ValueError.
IntOfText == [t \in {"0", "1"} |-> IF t = "0" THEN 0 ELSE 1]

\* int(v): <<TRUE, n>> or <<FALSE, exception>>.
PyIntOf(v) ==
    CASE v.kind \in {"int", "bool"} -> [ok |-> TRUE, n |-> v.n, exc |-> None]
      [] v.kind = "str" ->
            IF v.text \in DOMAIN IntOfText
            THEN [ok |-> TRUE, n |-> IntOfText[v.text], exc |-> None]
            ELSE [ok |-> FALSE, n |-> 0, exc |-> "ValueError"]
      [] OTHER -> [ok |-> FALSE, n |-> 0, exc |-> "TypeError"]

\* _convert_state(state): the converted state, or the TypeError it raises.
\* _convert_state with the conversion error swallowed: an unconvertible
\* state counts as 0.
_convert_state_swallowing(state) ==
    IF ~IsInstanceInt(state) \/ IsInstanceBool(state)
    THEN LET r == PyIntOf(state)
         IN  IF r.ok THEN [ok |-> TRUE, n |-> r.n]
             ELSE [ok |-> TRUE, n |-> 0]
    ELSE [ok |-> TRUE, n |-> state.n]

_convert_state(state) ==
    IF ~IsInstanceInt(state) \/ IsInstanceBool(state)
    THEN LET r == PyIntOf(state)
         IN  IF r.ok THEN [ok |-> TRUE, n |-> r.n]
             ELSE [ok |-> FALSE, n |-> 0]
    ELSE [ok |-> TRUE, n |-> state.n]

(***************************************************************************)
(* The table of attribute-group operations: for each function of           *)
(* attributes.py its renderer group name, its validTypes, the way it       *)
(* resolves its input, the arguments it takes, its attribute-value         *)
(* parameters in the order the function writes them (param is the keyword, *)
(* attr the attribute the value is written to, mode the setAttr mode) and  *)
(* the message of the RuntimeError it raises when nothing resolves.        *)
(***************************************************************************)
OP_vray_object_id ==
    [name |-> "vray_object_id",
     group |-> "vray_objectID",
     validTypes |-> <<"mesh", "nurbsSurface", "VRayLightDomeShape", "VRayLightRectShape", "VRayLightSphereShape">>,
     family |-> "shapes",
     hasAllDescendents |-> TRUE,
     hasAllowTransform |-> TRUE,
     smartConvert |-> TRUE,
     params |-> <<[param |-> "vrayObjectID", attr |-> "vrayObjectID", mode |-> "default"]>>,
     notFound |-> "No shapes found to apply the vray_object_id attribute group changes to."]

OP_vray_user_attributes ==
    [name |-> "vray_user_attributes",
     group |-> "vray_user_attributes",
     validTypes |-> <<"mesh", "nurbsSurface">>,
     family |-> "shapes",
     hasAllDescendents |-> TRUE,
     hasAllowTransform |-> TRUE,
     smartConvert |-> TRUE,
     params |-> <<[param |-> "vrayUserAttributes", attr |-> "vrayUserAttributes", mode |-> "string"]>>,
     notFound |-> "No shapes found to apply the vray_user_attributes attribute group changes to."]

OP_vray_subdivision ==
    [name |-> "vray_subdivision",
     group |-> "vray_subdivision",
     validTypes |-> <<"mesh">>,
     family |-> "shapes",
     hasAllDescendents |-> TRUE,
     hasAllowTransform |-> FALSE,
     smartConvert |-> TRUE,
     params |-> <<[param |-> "vraySubdivEnable", attr |-> "vraySubdivEnable", mode |-> "default"], [param |-> "vraySubdivUVs", attr |-> "vraySubdivUVs", mode |-> "default"], [param |-> "vrayPreserveMapBorders", attr |-> "vrayPreserveMapBorders", mode |-> "default"], [param |-> "vrayStaticSubdiv", attr |-> "vrayStaticSubdiv", mode |-> "default"], [param |-> "vrayClassicalCatmark", attr |-> "vrayClassicalCatmark", mode |-> "default"]>>,
     notFound |-> "No meshes found to apply the vray_subdivision attribute group changes to."]

OP_vray_subquality ==
    [name |-> "vray_subquality",
     group |-> "vray_subquality",
     validTypes |-> <<"mesh">>,
     family |-> "shapes",
     hasAllDescendents |-> TRUE,
     hasAllowTransform |-> FALSE,
     smartConvert |-> TRUE,
     params |-> <<[param |-> "vrayOverrideGlobalSubQual", attr |-> "vrayOverrideGlobalSubQual", mode |-> "default"], [param |-> "vrayViewDep", attr |-> "vrayViewDep", mode |-> "default"], [param |-> "vrayEdgeLength", attr |-> "vrayEdgeLength", mode |-> "default"], [param |-> "vrayMaxSubdivs", attr |-> "vrayMaxSubdivs", mode |-> "default"]>>,
     notFound |-> "No meshes found to apply the vray_subquality attribute group changes to."]

OP_vray_displacement ==
    [name |-> "vray_displacement",
     group |-> "vray_displacement",
     validTypes |-> <<"mesh">>,
     family |-> "shapes",
     hasAllDescendents |-> TRUE,
     hasAllowTransform |-> FALSE,
     smartConvert |-> TRUE,
     params |-> <<[param |-> "vrayDisplacementNone", attr |-> "vrayDisplacementNone", mode |-> "default"], [param |-> "vrayDisplacementStatic", attr |-> "vrayDisplacementStatic", mode |-> "default"], [param |-> "vrayDisplacementType", attr |-> "vrayDisplacementType", mode |-> "default"], [param |-> "vrayDisplacementAmount", attr |-> "vrayDisplacementAmount", mode |-> "default"], [param |-> "vrayDisplacementShift", attr |-> "vrayDisplacementShift", mode |-> "default"], [param |-> "vrayDisplacementKeepContinuity", attr |-> "vrayDisplacementKeepContinuity", mode |-> "default"], [param |-> "vrayEnableWaterLevel", attr |-> "vrayEnableWaterLevel", mode |-> "default"], [param |-> "vrayWaterLevel", attr |-> "vrayWaterLevel", mode |-> "default"], [param |-> "vray2dDisplacementResolution", attr |-> "vray2dDisplacementResolution", mode |-> "default"], [param |-> "vray2dDisplacementPrecision", attr |-> "vray2dDisplacementPrecision", mode |-> "default"], [param |-> "vray2dDisplacementTightBounds", attr |-> "vray2dDisplacementTightBounds", mode |-> "default"], [param |-> "vray2dDisplacementFilterTexture", attr |-> "vray2dDisplacementFilterTexture", mode |-> "default"], [param |-> "vray2dDisplacementFilterBlur", attr |-> "vray2dDisplacementFilterBlur", mode |-> "default"], [param |-> "vrayDisplacementUseBounds", attr |-> "vrayDisplacementUseBounds", mode |-> "default"], [param |-> "vrayDisplacementMinValue", attr |-> "vrayDisplacementMinValue", mode |-> "default"], [param |-> "vrayDisplacementMaxValue", attr |-> "vrayDisplacementMaxValue", mode |-> "default"]>>,
     notFound |-> "No meshes found to apply the vray_displacement attribute group changes to."]

OP_vray_roundedges ==
    [name |-> "vray_roundedges",
     group |-> "vray_roundedges",
     validTypes |-> <<"mesh">>,
     family |-> "shapes",
     hasAllDescendents |-> TRUE,
     hasAllowTransform |-> FALSE,
     smartConvert |-> TRUE,
     params |-> <<[param |-> "vrayRoundEdges", attr |-> "vrayRoundEdges", mode |-> "default"], [param |-> "vrayRoundEdgesRadius", attr |-> "vrayRoundEdgesRadius", mode |-> "default"]>>,
     notFound |-> "No meshes found to apply the vray_roundedges attribute group changes to."]

OP_vray_fogFadeOut ==
    [name |-> "vray_fogFadeOut",
     group |-> "vray_fogFadeOut",
     validTypes |-> <<"mesh">>,
     family |-> "shapes",
     hasAllDescendents |-> TRUE,
     hasAllowTransform |-> FALSE,
     smartConvert |-> TRUE,
     params |-> <<[param |-> "vrayFogFadeOut", attr |-> "vrayFogFadeOut", mode |-> "default"]>>,
     notFound |-> "No meshes found to apply the vray_fogFadeOut attribute group changes to."]

OP_vray_phoenix_object ==
    [name |-> "vray_phoenix_object",
     group |-> "vray_phoenix_object",
     validTypes |-> <<"mesh">>,
     family |-> "shapes",
     hasAllDescendents |-> TRUE,
     hasAllowTransform |-> FALSE,
     smartConvert |-> TRUE,
     params |-> <<[param |-> "vrayPhoenixObjVoxels", attr |-> "vrayPhoenixObjVoxels", mode |-> "default"]>>,
     notFound |-> "No meshes found to apply the vray_phoenix_object attribute group changes to."]

OP_vray_nurbsStaticGeom ==
    [name |-> "vray_nurbsStaticGeom",
     group |-> "vray_nusrbsStaticGeom",
     validTypes |-> <<"nurbsSurface">>,
     family |-> "shapes",
     hasAllDescendents |-> TRUE,
     hasAllowTransform |-> FALSE,
     smartConvert |-> TRUE,
     params |-> <<[param |-> "vrayAsStaticGeom", attr |-> "vrayAsStaticGeom", mode |-> "default"], [param |-> "vrayMaxSubdivDepth", attr |-> "vrayMaxSubdivDepth", mode |-> "default"], [param |-> "vrayFlatnessCoef", attr |-> "vrayFlatnessCoef", mode |-> "default"]>>,
     notFound |-> "No shapes found to apply the vray_object_id attribute group changes to."]

OP_vray_nurbscurve_renderable ==
    [name |-> "vray_nurbscurve_renderable",
     group |-> "vray_nurbscurve_renderable",
     validTypes |-> <<"nurbsCurve">>,
     family |-> "shapes",
     hasAllDescendents |-> TRUE,
     hasAllowTransform |-> FALSE,
     smartConvert |-> TRUE,
     params |-> <<[param |-> "vrayNurbsCurveRenderable", attr |-> "vrayNurbsCurveRenderable", mode |-> "default"], [param |-> "vrayNurbsCurveMaterial", attr |-> "vrayNurbsCurveMaterial", mode |-> "default"], [param |-> "vrayNurbsCurveTesselation", attr |-> "vrayNurbsCurveTesselation", mode |-> "default"], [param |-> "vrayNurbsCurveStartWidth", attr |-> "vrayNurbsCurveStartWidth", mode |-> "default"], [param |-> "vrayNurbsCurveLockEndWidth", attr |-> "vrayNurbsCurveLockEndWidth", mode |-> "default"], [param |-> "vrayNurbsCurveEndWidth", attr |-> "vrayNurbsCurveEndWidth", mode |-> "default"]>>,
     notFound |-> "No shapes found to apply the vray_object_id attribute group changes to."]

OP_vray_material_id ==
    [name |-> "vray_material_id",
     group |-> "vray_material_id",
     validTypes |-> <<>>,
     family |-> "materials",
     hasAllDescendents |-> FALSE,
     hasAllowTransform |-> FALSE,
     smartConvert |-> TRUE,
     params |-> <<[param |-> "vrayMaterialId", attr |-> "vrayMaterialId", mode |-> "default"]>>,
     notFound |-> "No materials found"]

OP_vray_specific_mtl ==
    [name |-> "vray_specific_mtl",
     group |-> "vray_specific_mtl",
     validTypes |-> <<>>,
     family |-> "materials",
     hasAllDescendents |-> FALSE,
     hasAllowTransform |-> FALSE,
     smartConvert |-> TRUE,
     params |-> <<>>,
     notFound |-> "No materials found"]

OP_vray_closed_volume ==
    [name |-> "vray_closed_volume",
     group |-> "vray_closed_volume",
     validTypes |-> <<>>,
     family |-> "materials",
     hasAllDescendents |-> FALSE,
     hasAllowTransform |-> FALSE,
     smartConvert |-> TRUE,
     params |-> <<[param |-> "vrayClosedVolume", attr |-> "vrayClosedVolume", mode |-> "default"]>>,
     notFound |-> "No materials found"]

OP_vray_cameraPhysical ==
    [name |-> "vray_cameraPhysical",
     group |-> "vray_cameraPhysical",
     validTypes |-> <<"camera">>,
     family |-> "shapes",
     hasAllDescendents |-> TRUE,
     hasAllowTransform |-> FALSE,
     smartConvert |-> TRUE,
     params |-> <<>>,
     notFound |-> "No cameras found to apply the vray_cameraPhysical attribute group changes to."]

OP_vray_cameraOverrides ==
    [name |-> "vray_cameraOverrides",
     group |-> "vray_cameraOverrides",
     validTypes |-> <<"camera">>,
     family |-> "shapes",
     hasAllDescendents |-> TRUE,
     hasAllowTransform |-> FALSE,
     smartConvert |-> TRUE,
     params |-> <<[param |-> "vrayCameraOverridesOn", attr |-> "vrayCameraOverridesOn", mode |-> "default"], [param |-> "vrayCameraType", attr |-> "vrayCameraType", mode |-> "default"], [param |-> "vrayCameraOverrideFOV", attr |-> "vrayCameraOverrideFOV", mode |-> "default"], [param |-> "vrayCameraFOV", attr |-> "vrayCameraFOV", mode |-> "default"], [param |-> "vrayCameraHeight", attr |-> "vrayCameraHeight", mode |-> "default"], [param |-> "vrayCameraAutoFit", attr |-> "vrayCameraAutoFit", mode |-> "default"], [param |-> "vrayCameraDist", attr |-> "vrayCameraDist", mode |-> "default"], [param |-> "vrayCameraCurve", attr |-> "vrayCameraCurve", mode |-> "default"]>>,
     notFound |-> "No cameras found to apply the vray_cameraOverrides attribute group changes to."]

OP_vray_cameraDome ==
    [name |-> "vray_cameraDome",
     group |-> "vray_cameraDome",
     validTypes |-> <<"camera">>,
     family |-> "shapes",
     hasAllDescendents |-> TRUE,
     hasAllowTransform |-> FALSE,
     smartConvert |-> TRUE,
     params |-> <<[param |-> "vrayCameraDomeOn", attr |-> "vrayCameraDomeOn", mode |-> "default"], [param |-> "vrayCameraDomeFlipX", attr |-> "vrayCameraDomeFlipX", mode |-> "default"], [param |-> "vrayCameraDomeFlipY", attr |-> "vrayCameraDomeFlipY", mode |-> "default"], [param |-> "vrayCameraDomeFov", attr |-> "vrayCameraDomeFov", mode |-> "default"]>>,
     notFound |-> "No cameras found to apply the vray_cameraDome attribute group changes to."]

OP_vray_light ==
    [name |-> "vray_light",
     group |-> "vray_light",
     validTypes |-> <<"ambientLight">>,
     family |-> "shapes",
     hasAllDescendents |-> TRUE,
     hasAllowTransform |-> FALSE,
     smartConvert |-> TRUE,
     params |-> <<[param |-> "vrayPhotonSubdivs", attr |-> "vrayPhotonSubdivs", mode |-> "default"], [param |-> "vrayDiffuseMult", attr |-> "vrayDiffuseMult", mode |-> "default"], [param |-> "vrayCausticSubdivs", attr |-> "vrayCausticSubdivs", mode |-> "default"], [param |-> "vrayCausticMult", attr |-> "vrayCausticMult", mode |-> "default"], [param |-> "vrayShadowBias", attr |-> "vrayShadowBias", mode |-> "default"], [param |-> "vrayCutoffThreshold", attr |-> "vrayCutoffThreshold", mode |-> "default"], [param |-> "vrayOverrideMBSamples", attr |-> "vrayOverrideMBSamples", mode |-> "default"], [param |-> "vrayMBSamples", attr |-> "vrayOverrideMBSamples", mode |-> "default"]>>,
     notFound |-> "No shapes found to apply the vray_light attribute group changes to."]

OP_vray_directlight ==
    [name |-> "vray_directlight",
     group |-> "vray_directlight",
     validTypes |-> <<"directionalLight">>,
     family |-> "shapes",
     hasAllDescendents |-> TRUE,
     hasAllowTransform |-> FALSE,
     smartConvert |-> TRUE,
     params |-> <<[param |-> "vrayPhotonSubdivs", attr |-> "vrayPhotonSubdivs", mode |-> "default"], [param |-> "vrayDiffuseMult", attr |-> "vrayDiffuseMult", mode |-> "default"], [param |-> "vrayCausticSubdivs", attr |-> "vrayCausticSubdivs", mode |-> "default"], [param |-> "vrayCausticMult", attr |-> "vrayCausticMult", mode |-> "default"], [param |-> "vrayShadowBias", attr |-> "vrayShadowBias", mode |-> "default"], [param |-> "vrayDiffuseContrib", attr |-> "vrayDiffuseContrib", mode |-> "default"], [param |-> "vraySpecularContrib", attr |-> "vraySpecularContrib", mode |-> "default"], [param |-> "vrayStoreWithIrradianceMap", attr |-> "vrayStoreWithIrradianceMap", mode |-> "default"], [param |-> "vrayOverrideMBSamples", attr |-> "vrayOverrideMBSamples", mode |-> "default"], [param |-> "vrayMBSamples", attr |-> "vrayOverrideMBSamples", mode |-> "default"]>>,
     notFound |-> "No shapes found to apply the vray_pointLight attribute group changes to."]

OP_vray_pointLight ==
    [name |-> "vray_pointLight",
     group |-> "vray_pointLight",
     validTypes |-> <<"spotLight", "pointLight">>,
     family |-> "shapes",
     hasAllDescendents |-> TRUE,
     hasAllowTransform |-> FALSE,
     smartConvert |-> TRUE,
     params |-> <<[param |-> "vrayPhotonSubdivs", attr |-> "vrayPhotonSubdivs", mode |-> "default"], [param |-> "vrayDiffuseMult", attr |-> "vrayDiffuseMult", mode |-> "default"], [param |-> "vrayCausticSubdivs", attr |-> "vrayCausticSubdivs", mode |-> "default"], [param |-> "vrayCausticMult", attr |-> "vrayCausticMult", mode |-> "default"], [param |-> "vrayCutoffThreshold", attr |-> "vrayCutoffThreshold", mode |-> "default"], [param |-> "vrayShadowBias", attr |-> "vrayShadowBias", mode |-> "default"], [param |-> "vrayDiffuseContrib", attr |-> "vrayDiffuseContrib", mode |-> "default"], [param |-> "vraySpecularContrib", attr |-> "vraySpecularContrib", mode |-> "default"], [param |-> "vrayStoreWithIrradianceMap", attr |-> "vrayStoreWithIrradianceMap", mode |-> "default"], [param |-> "vrayOverrideMBSamples", attr |-> "vrayOverrideMBSamples", mode |-> "default"], [param |-> "vrayMBSamples", attr |-> "vrayOverrideMBSamples", mode |-> "default"]>>,
     notFound |-> "No shapes found to apply the vray_pointLight attribute group changes to."]

OP_vray_arealight ==
    [name |-> "vray_arealight",
     group |-> "vray_arealight",
     validTypes |-> <<"areaLight">>,
     family |-> "shapes",
     hasAllDescendents |-> TRUE,
     hasAllowTransform |-> FALSE,
     smartConvert |-> TRUE,
     params |-> <<[param |-> "vrayPhotonSubdivs", attr |-> "vrayPhotonSubdivs", mode |-> "default"], [param |-> "vrayDiffuseMult", attr |-> "vrayDiffuseMult", mode |-> "default"], [param |-> "vrayCausticSubdivs", attr |-> "vrayCausticSubdivs", mode |-> "default"], [param |-> "vrayCausticMult", attr |-> "vrayCausticMult", mode |-> "default"], [param |-> "vrayShadowBias", attr |-> "vrayShadowBias", mode |-> "default"], [param |-> "vrayCutoffThreshold", attr |-> "vrayCutoffThreshold", mode |-> "default"], [param |-> "vrayDiffuseContrib", attr |-> "vrayDiffuseContrib", mode |-> "default"], [param |-> "vraySpecularContrib", attr |-> "vraySpecularContrib", mode |-> "default"], [param |-> "vrayInvisible", attr |-> "vrayStoreWithIrradianceMap", mode |-> "default"], [param |-> "vrayOverrideMBSamples", attr |-> "vrayOverrideMBSamples", mode |-> "default"], [param |-> "vrayMBSamples", attr |-> "vrayOverrideMBSamples", mode |-> "default"]>>,
     notFound |-> "No shapes found to apply the vray_arealight attribute group changes to."]

OP_vray_file_gamma ==
    [name |-> "vray_file_gamma",
     group |-> "vray_file_gamma",
     validTypes |-> <<"file", "VRayPtex", "substance", "imagePlane">>,
     family |-> "nodes",
     hasAllDescendents |-> FALSE,
     hasAllowTransform |-> FALSE,
     smartConvert |-> TRUE,
     params |-> <<[param |-> "vrayFileGammaEnable", attr |-> "vrayFileGammaEnable", mode |-> "default"], [param |-> "vrayFileColorSpace", attr |-> "vrayFileColorSpace", mode |-> "default"], [param |-> "vrayFileGammaValue", attr |-> "vrayFileGammaValue", mode |-> "default"]>>,
     notFound |-> "No samplerInfo found to apply the vray_file_gamma attribute changes to."]

OP_vray_file_allow_neg_colors ==
    [name |-> "vray_file_allow_neg_colors",
     group |-> "vray_file_allow_neg_colors",
     validTypes |-> <<"file", "substance", "imagePlane">>,
     family |-> "nodes",
     hasAllDescendents |-> FALSE,
     hasAllowTransform |-> FALSE,
     smartConvert |-> TRUE,
     params |-> <<[param |-> "vrayFileAllowNegColors", attr |-> "vrayFileAllowNegColors", mode |-> "default"]>>,
     notFound |-> "No samplerInfo found to apply the vray_samplerinfo_extra_tex attribute changes to."]

OP_vray_file_ifl ==
    [name |-> "vray_file_ifl",
     group |-> "vray_file_ifl",
     validTypes |-> <<"file">>,
     family |-> "nodes",
     hasAllDescendents |-> FALSE,
     hasAllowTransform |-> FALSE,
     smartConvert |-> TRUE,
     params |-> <<[param |-> "vrayFileIFLStartFrame", attr |-> "vrayFileIFLStartFrame", mode |-> "default"], [param |-> "vrayFileIFLEndCondition", attr |-> "vrayFileIFLEndCondition", mode |-> "default"], [param |-> "vrayFileIFLPlaybackRate", attr |-> "vrayFileIFLPlaybackRate", mode |-> "default"]>>,
     notFound |-> "No samplerInfo found to apply the vray_file_ifl attribute changes to."]

OP_vray_texture_filter ==
    [name |-> "vray_texture_filter",
     group |-> "vray_texture_filter",
     validTypes |-> <<"file", "substance">>,
     family |-> "nodes",
     hasAllDescendents |-> FALSE,
     hasAllowTransform |-> FALSE,
     smartConvert |-> TRUE,
     params |-> <<[param |-> "vrayOverrideTextureFilter", attr |-> "vrayOverrideTextureFilter", mode |-> "default"], [param |-> "vrayTextureFilter", attr |-> "vrayTextureFilter", mode |-> "default"], [param |-> "vrayTextureSmoothType", attr |-> "vrayTextureSmoothType", mode |-> "default"]>>,
     notFound |-> "No samplerInfo found to apply the vray_texture_filter attribute changes to."]

OP_vray_2d_placement_options ==
    [name |-> "vray_2d_placement_options",
     group |-> "vray_2d_placement_options",
     validTypes |-> <<"place2dTexture">>,
     family |-> "nodes",
     hasAllDescendents |-> FALSE,
     hasAllowTransform |-> FALSE,
     smartConvert |-> TRUE,
     params |-> <<[param |-> "vrayUVSetName", attr |-> "vrayUVSetName", mode |-> "string"]>>,
     notFound |-> "No place2dTexture found to apply the vray_2d_placement_options attribute changes to."]

OP_vray_samplerinfo_extra_tex ==
    [name |-> "vray_samplerinfo_extra_tex",
     group |-> "vray_samplerinfo_extra_tex",
     validTypes |-> <<"samplerInfo">>,
     family |-> "nodes",
     hasAllDescendents |-> FALSE,
     hasAllowTransform |-> FALSE,
     smartConvert |-> TRUE,
     params |-> <<[param |-> "vrayNormalObj", attr |-> "vrayNormalObj", mode |-> "default"], [param |-> "vrayNormalWorld", attr |-> "vrayNormalWorld", mode |-> "default"], [param |-> "vrayGNormalWorld", attr |-> "vrayGNormalWorld", mode |-> "default"], [param |-> "vrayPointWorldReferenceX", attr |-> "vrayPointWorldReferenceX", mode |-> "default"], [param |-> "vrayNormalWorldReferenceX", attr |-> "vrayNormalWorldReferenceX", mode |-> "default"], [param |-> "vrayRayDepth", attr |-> "vrayRayDepth", mode |-> "default"], [param |-> "vrayPathLength", attr |-> "vrayPathLength", mode |-> "default"]>>,
     notFound |-> "No samplerInfo found to apply the vray_samplerinfo_extra_tex attribute changes to."]

OP_vray_skip_export ==
    [name |-> "vray_skip_export",
     group |-> "vray_skip_export",
     validTypes |-> <<"transform">>,
     family |-> "transforms",
     hasAllDescendents |-> FALSE,
     hasAllowTransform |-> FALSE,
     smartConvert |-> FALSE,
     params |-> <<[param |-> "vraySkipExport", attr |-> "vraySkipExport", mode |-> "default"]>>,
     notFound |-> "No transforms found to apply the vray_skip_export attribute group changes to."]

OpTable ==
    {OP_vray_object_id,
     OP_vray_user_attributes,
     OP_vray_subdivision,
     OP_vray_subquality,
     OP_vray_displacement,
     OP_vray_roundedges,
     OP_vray_fogFadeOut,
     OP_vray_phoenix_object,
     OP_vray_nurbsStaticGeom,
     OP_vray_nurbscurve_renderable,
     OP_vray_material_id,
     OP_vray_specific_mtl,
     OP_vray_closed_volume,
     OP_vray_cameraPhysical,
     OP_vray_cameraOverrides,
     OP_vray_cameraDome,
     OP_vray_light,
     OP_vray_directlight,
     OP_vray_pointLight,
     OP_vray_arealight,
     OP_vray_file_gamma,
     OP_vray_file_allow_neg_colors,
     OP_vray_file_ifl,
     OP_vray_texture_filter,
     OP_vray_2d_placement_options,
     OP_vray_samplerinfo_extra_tex,
     OP_vray_skip_export}

OpNames == {o.name : o \in OpTable}
OpOf(name) == CHOOSE o \in OpTable : o.name = name
ParamNames(op) == {op.params[i].param : i \in DOMAIN op.params}

(***************************************************************************)
(* The renderer's attribute groups.  addAttributesFromGroup creates the    *)
(* group's attributes on the node it is given, whatever the node's type,   *)
(* and removes them again with state 0.                                    *)
(***************************************************************************)
DefaultValue == "default"
OldValue == "old"

\* The attributes of a renderer group: those its operation names.
GroupAttrs(g) ==
    UNION {{o.params[i].param : i \in DOMAIN o.params} \cup
           {o.params[i].attr : i \in DOMAIN o.params} : o \in {x \in OpTable : x.group = g}}

\* The group command putting the attributes of the group back to their
\* defaults whenever it adds the group.
AddAttributesFromGroup_resetting(sc, node, group, state) ==
    IF state # 0
    THEN LET mine == {<<node, a>> : a \in GroupAttrs(group)}
         IN  [groups |-> sc.groups \cup {<<node, group>>},
              attrs |-> [k \in DOMAIN sc.attrs \cup mine |->
                            IF k \in mine THEN DefaultValue ELSE sc.attrs[k]]]
    ELSE [groups |-> sc.groups \ {<<node, group>>},
          attrs |-> [k \in DOMAIN sc.attrs \ {<<node, a>> : a \in GroupAttrs(group)} |->
                        sc.attrs[k]]]

\* mc.vray("addAttributesFromGroup", node, group, state) on scene sc.
AddAttributesFromGroup(sc, node, group, state) ==
    IF state # 0
    THEN LET new == {<<node, a>> : a \in GroupAttrs(group)} \ DOMAIN sc.attrs
         IN  [groups |-> sc.groups \cup {<<node, group>>},
              attrs |-> [k \in DOMAIN sc.attrs \cup new |->
                            IF k \in DOMAIN sc.attrs THEN sc.attrs[k] ELSE DefaultValue]]
    ELSE LET left == sc.groups \ {<<node, group>>}
             kept == UNION {GroupAttrs(p[2]) : p \in {q \in left : q[1] = node}}
             gone == {<<node, a>> : a \in GroupAttrs(group) \ kept}
         IN  [groups |-> left,
              attrs |-> [k \in DOMAIN sc.attrs \ gone |-> sc.attrs[k]]]

\* mc.setAttr("node.attr", value): the attribute must exist.
SetAttrFails(sc, node, attr) == <<node, attr>> \notin DOMAIN sc.attrs
SetAttr(sc, node, attr, value) ==
    [groups |-> sc.groups, attrs |-> [sc.attrs EXCEPT ![<<node, attr>>] = value]]

(***************************************************************************)
(* Commands and queries as the log records them.                           *)
(***************************************************************************)
Query(what) == [cmd |-> what, node |-> None, name |-> None, value |-> None,
                mode |-> None, state |-> 0]
VrayCmd(node, group, state) ==
    [cmd |-> "addAttributesFromGroup", node |-> node, name |-> group,
     value |-> None, mode |-> None, state |-> state]
SetAttrCmd(node, attr, value, mode) ==
    [cmd |-> "setAttr", node |-> node, name |-> attr, value |-> value,
     mode |-> mode, state |-> 0]

IsQuery(c) == c.cmd \notin {"addAttributesFromGroup", "setAttr"}

\* The value the caller passes for a keyword: a token of its own per keyword.
ArgValue(p) == p

(***************************************************************************)
(* Input resolution.  Each returns the resolved list, the host queries it  *)
(* made and the caller's list object as the call leaves it.                *)
(***************************************************************************)
\* _convert_input_shapes without the override of smartConvert: allowTransform
\* only adds "transform" to the filter.
_convert_input_shapes_smart(shapes, smartConvert, allDescendents, filterType, allowTransform) ==
    LET types == IF allowTransform THEN filterType \o <<"transform">> ELSE filterType
        raw == IF shapes.isNone THEN LsSelection ELSE shapes.items
        q1 == IF shapes.isNone THEN <<Query("ls_selection")>> ELSE <<>>
    IN  IF smartConvert
        THEN [resolved |-> getShapes(raw, allDescendents, types),
              raw |-> raw, queries |-> Append(q1, Query("getShapes")), list |-> shapes]
        ELSE [resolved |-> LsNames(raw, types),
              raw |-> raw, queries |-> Append(q1, Query("ls")), list |-> shapes]

\* _convert_input_shapes(shapes, smartConvert, allDescendents, filterType,
\* allowTransform)
_convert_input_shapes(shapes, smartConvert, allDescendents, filterType, allowTransform) ==
    LET smart == IF allowTransform THEN FALSE ELSE smartConvert
        types == IF allowTransform THEN filterType \o <<"transform">> ELSE filterType
        raw == IF shapes.isNone THEN LsSelection ELSE shapes.items
        q1 == IF shapes.isNone THEN <<Query("ls_selection")>> ELSE <<>>
    IN  IF smart
        THEN [resolved |-> getShapes(raw, allDescendents, types),
              raw |-> raw, queries |-> Append(q1, Query("getShapes")), list |-> shapes]
        ELSE [resolved |-> LsNames(raw, types),
              raw |-> raw, queries |-> Append(q1, Query("ls")), list |-> shapes]

\* vray_material_id, vray_specific_mtl, vray_closed_volume: the materials
ResolveMaterials(materials, smartConvert) ==
    LET raw == IF materials.isNone THEN LsSelection ELSE materials.items
        q1 == IF materials.isNone THEN <<Query("ls_selection")>> ELSE <<>>
    IN  IF smartConvert
        THEN [resolved |-> getMaterials(raw), raw |-> raw,
              queries |-> Append(q1, Query("getMaterials")), list |-> materials]
        ELSE [resolved |-> LsMaterials(raw), raw |-> raw,
              queries |-> Append(q1, Query("ls")), list |-> materials]

\* smartConvert deciding whether the input is filtered by type.
ResolveNodes_smart(nodes, smartConvert, validTypes) ==
    LET raw == IF nodes.isNone THEN LsSelection ELSE nodes.items
        q1 == IF nodes.isNone THEN <<Query("ls_selection")>> ELSE <<>>
    IN  [resolved |-> IF smartConvert THEN LsType(raw, validTypes) ELSE SelectSeq(raw, Exists),
         raw |-> raw, queries |-> Append(q1, Query("ls")), list |-> nodes]

\* the file, placement and sampler-info operations: smartConvert does nothing
ResolveNodes(nodes, smartConvert, validTypes) ==
    LET raw == IF nodes.isNone THEN LsSelection ELSE nodes.items
        q1 == IF nodes.isNone THEN <<Query("ls_selection")>> ELSE <<>>
    IN  [resolved |-> LsType(raw, validTypes), raw |-> raw,
         queries |-> Append(q1, Query("ls")), list |-> nodes]

\* The parents of the input's shapes appended whatever smartConvert says.
ResolveTransforms_alwaysParents(transforms, smartConvert, validTypes) ==
    LET raw == IF transforms.isNone THEN LsSelection ELSE transforms.items
        q1 == IF transforms.isNone THEN <<Query("ls_selection")>> ELSE <<>>
        shapes == LsShapes(raw)
        shapeParents == IF shapes # <<>> THEN ListRelativesParent(shapes) ELSE <<>>
    IN  [resolved |-> LsType(raw \o shapeParents, validTypes), raw |-> raw,
         queries |-> Append(q1, Query("ls")),
         list |-> IF transforms.isNone THEN NoneList ELSE ListOf(raw \o shapeParents)]

\* The parents appended to a copy of the input list.
ResolveTransforms_copy(transforms, smartConvert, validTypes) ==
    LET raw == IF transforms.isNone THEN LsSelection ELSE transforms.items
        q1 == IF transforms.isNone THEN <<Query("ls_selection")>> ELSE <<>>
        shapes == LsShapes(raw)
        shapeParents == IF shapes # <<>> THEN ListRelativesParent(shapes) ELSE <<>>
        q2 == IF ~smartConvert THEN <<>>
              ELSE IF shapes # <<>> THEN <<Query("ls_shapes"), Query("listRelatives")>>
              ELSE <<Query("ls_shapes")>>
        ext == IF smartConvert THEN raw \o shapeParents ELSE raw
    IN  [resolved |-> LsType(ext, validTypes), raw |-> raw,
         queries |-> Append(q1 \o q2, Query("ls")), list |-> transforms]

\* vray_skip_export: with smartConvert the parents of the input's shapes are
\* appended to the input list itself.
ResolveTransforms(transforms, smartConvert, validTypes) ==
    LET raw == IF transforms.isNone THEN LsSelection ELSE transforms.items
        q1 == IF transforms.isNone THEN <<Query("ls_selection")>> ELSE <<>>
        shapes == LsShapes(raw)
        shapeParents == IF shapes # <<>> THEN ListRelativesParent(shapes) ELSE <<>>
        q2 == IF ~smartConvert THEN <<>>
              ELSE IF shapes # <<>> THEN <<Query("ls_shapes"), Query("listRelatives")>>
              ELSE <<Query("ls_shapes")>>
        ext == IF smartConvert THEN raw \o shapeParents ELSE raw
    IN  [resolved |-> LsType(ext, validTypes), raw |-> raw,
         queries |-> Append(q1 \o q2, Query("ls")),
         list |-> IF transforms.isNone THEN NoneList ELSE ListOf(ext)]

Resolve(op, a) ==
    CASE op.family = "shapes" ->
            _convert_input_shapes(a.shapes, a.smartConvert, a.allDescendents,
                                  op.validTypes, a.allowTransform)
      [] op.family = "materials" -> ResolveMaterials(a.shapes, a.smartConvert)
      [] op.family = "nodes" -> ResolveNodes(a.shapes, a.smartConvert, op.validTypes)
      [] op.family = "transforms" ->
            ResolveTransforms(a.shapes, a.smartConvert, op.validTypes)

(***************************************************************************)
(* The per-node loop.                                                      *)
(***************************************************************************)
\* The given parameters written in the reverse of the function's order.
ManageAttributes_reversed(op, a, node) ==
    LET Given(i) == op.params[i].param \in a.kw
        idx == SelectSeq([i \in DOMAIN op.params |-> i], Given)
    IN  [j \in DOMAIN idx |->
            SetAttrCmd(node, op.params[idx[Len(idx) + 1 - j]].attr,
                       ArgValue(op.params[idx[Len(idx) + 1 - j]].param),
                       op.params[idx[Len(idx) + 1 - j]].mode)]

\* Each given parameter written to the attribute of its own name.
ManageAttributes_ownName(op, a, node) ==
    LET Given(i) == op.params[i].param \in a.kw
        idx == SelectSeq([i \in DOMAIN op.params |-> i], Given)
    IN  [j \in DOMAIN idx |->
            SetAttrCmd(node, op.params[idx[j]].param, ArgValue(op.params[idx[j]].param),
                       op.params[idx[j]].mode)]

\* The attribute writes of one node: each given parameter, in the order of
\* the function's if-statements.
ManageAttributes(op, a, node) ==
    LET Given(i) == op.params[i].param \in a.kw
        idx == SelectSeq([i \in DOMAIN op.params |-> i], Given)
    IN  [j \in DOMAIN idx |->
            SetAttrCmd(node, op.params[idx[j]].attr, ArgValue(op.params[idx[j]].param),
                       op.params[idx[j]].mode)]

\* The commands of one node without the "if state:" guard.
NodeCommands_unguarded(op, a, node, state) ==
    <<VrayCmd(node, op.group, state)>> \o ManageAttributes(op, a, node)

\* The commands of one node: the group command, then, with a true state, the
\* attribute writes.
NodeCommands(op, a, node, state) ==
    <<VrayCmd(node, op.group, state)>> \o
    (IF state # 0 THEN ManageAttributes(op, a, node) ELSE <<>>)

\* The loop left after its first node.
LoopCommands_firstOnly(op, a, resolved, state) == NodeCommands(op, a, resolved[1], state)

\* The commands of the whole loop, node after node.
LoopCommands(op, a, resolved, state) ==
    Concat([i \in DOMAIN resolved |-> NodeCommands(op, a, resolved[i], state)])

\* One host command applied to the scene.
Apply(sc, c) ==
    IF c.cmd = "addAttributesFromGroup"
    THEN AddAttributesFromGroup(sc, c.node, c.name, c.state)
    ELSE SetAttr(sc, c.node, c.name, c.value)

RECURSIVE Execute(_, _, _, _)
\* Runs cmds from the i-th on; the host raises at the failAt-th command and
\* at a write to an attribute that does not exist.  The failing command is
\* issued and changes nothing; no later command is issued.
Execute(cmds, i, failAt, sc) ==
    IF i > Len(cmds) THEN [scene |-> sc, issued |-> Len(cmds), failed |-> FALSE]
    ELSE IF i = failAt \/ (cmds[i].cmd = "setAttr" /\ SetAttrFails(sc, cmds[i].node, cmds[i].name))
    THEN [scene |-> sc, issued |-> i, failed |-> TRUE]
    ELSE Execute(cmds, i + 1, failAt, Apply(sc, cmds[i]))

\* The emptiness test left out.
NothingFound_never(resolved) == FALSE

\* "if not shapes: raise RuntimeError(...)"
NothingFound(resolved) == resolved = <<>>

\* What a call leaves: its outcome, the commands it issued, the scene.
Outcome(outcome, message, state, r, log, cmds, sc) ==
    [outcome |-> outcome, message |-> message, state |-> state, raw |-> r.raw,
     resolved |-> IF outcome \in {"ok", "HostError"} THEN r.resolved ELSE <<>>,
     log |-> log, cmds |-> cmds, list |-> r.list, scene |-> sc]

\* The end of the loop: x is what Execute made of cmds.
LoopDone(r, state, cmds, x) ==
    Outcome(IF x.failed THEN "HostError" ELSE "ok", None, state, r,
            r.queries \o SubSeq(cmds, 1, x.issued), Len(cmds), x.scene)

\* A failed loop leaving the scene as it was before the first command.
RunLoop_rollback(a, r, state, cmds, sc) ==
    LoopDone(r, state, cmds,
             [Execute(cmds, 1, a.failAt, sc) EXCEPT
                 !.scene = IF Execute(cmds, 1, a.failAt, sc).failed
                           THEN sc ELSE Execute(cmds, 1, a.failAt, sc).scene])

\* "for shape in shapes: ...", the commands of the loop run on the scene.
RunLoop(a, r, state, cmds, sc) == LoopDone(r, state, cmds, Execute(cmds, 1, a.failAt, sc))

\* The function after input resolution: the emptiness test, then the loop.
Resolved(op, a, sc, state, r) ==
    IF NothingFound(r.resolved)
    THEN Outcome("RuntimeError", op.notFound, state, r, r.queries, 0, sc)
    ELSE RunLoop(a, r, state, LoopCommands(op, a, r.resolved, state), sc)

\* The function after "state = _convert_state(state)".
Converted(op, a, sc, st) ==
    IF ~st.ok
    THEN Outcome("TypeError", "state argument must be an int or to int convertable type",
                 0, [raw |-> <<>>, resolved |-> <<>>, list |-> a.shapes], <<>>, 0, sc)
    ELSE Resolved(op, a, sc, st.n, Resolve(op, a))

\* The body of an attribute-group function, from _convert_state to the end
\* of the loop, on scene sc.
RunAttrGroupOp(op, a, sc) == Converted(op, a, sc, _convert_state(a.state))

(***************************************************************************)
(* The calls of the model.  A call is a set of at most MaxArgs deviations  *)
(* from the call that passes no argument to a host that does not fail: an  *)
(* explicit node list, a state, a flipped flag, a given attribute-value    *)
(* parameter, or the position of a host command that raises.               *)
(***************************************************************************)
\* The explicit node lists callers pass.
InputLists == {<<>>, <<"grp">>, <<"xf", "tex">>, <<"shp", "mat">>, <<"tex", "shp">>,
               <<"grp", "xf", "shp">>}

StateInputs == {PyInt(0), PyInt(2), PyBool(TRUE), PyBool(FALSE), PyStr("0"), PyStr("x"),
                PyNone}

Item(key, list, py, name, k) == [key |-> key, list |-> list, py |-> py, name |-> name, k |-> k]

Items(op) ==
    {Item("shapes", l, PyNone, None, 0) : l \in InputLists}
    \cup {Item("state", <<>>, v, None, 0) : v \in StateInputs}
    \cup {Item("smartConvert", <<>>, PyNone, None, 0)}
    \cup (IF op.hasAllDescendents THEN {Item("allDescendents", <<>>, PyNone, None, 0)} ELSE {})
    \cup (IF op.hasAllowTransform THEN {Item("allowTransform", <<>>, PyNone, None, 0)} ELSE {})
    \cup {Item("kw", <<>>, PyNone, p, 0) : p \in ParamNames(op)}
    \cup {Item("fail", <<>>, PyNone, None, k) : k \in 1..MaxFail}

OnePerKey(D) == \A x, y \in D : (x.key = y.key /\ x.key # "kw") => x = y

Has(D, key) == \E x \in D : x.key = key
The(D, key) == CHOOSE x \in D : x.key = key

\* The arguments a set of deviations stands for; the rest are the defaults of
\* the function's signature.
ArgsOf(op, D) ==
    [shapes |-> IF Has(D, "shapes") THEN ListOf(The(D, "shapes").list) ELSE NoneList,
     state |-> IF Has(D, "state") THEN The(D, "state").py ELSE PyInt(1),
     smartConvert |-> IF Has(D, "smartConvert") THEN ~op.smartConvert ELSE op.smartConvert,
     allDescendents |-> ~Has(D, "allDescendents"),
     allowTransform |-> Has(D, "allowTransform"),
     kw |-> {x.name : x \in {y \in D : y.key = "kw"}},
     failAt |-> IF Has(D, "fail") THEN The(D, "fail").k ELSE 0]

CallsOf ==
    [name \in OpNames |->
        {ArgsOf(OpOf(name), D) : D \in {E \in UpTo(Items(OpOf(name)), MaxArgs) : OnePerKey(E)}}]

(***************************************************************************)
(* Actions: one per function of attributes.py.                             *)
(***************************************************************************)
NoCall == [api |-> "none"]
\* A renderer that leaves the selection alone and the existing sets as they
\* are when it creates a set.
PlainRenderer == [selectsNew |-> FALSE, exclusive |-> FALSE]
Snapshot == [nodeType |-> nodeType, selection |-> selection, groups |-> groups,
             attrs |-> attrs, members |-> members]

\* No call was made yet: a behaviour of the attribute operations is one call.
Idle == call.api = "none"

AttrGroupOp(op) ==
    /\ \E a \in CallsOf[op.name] :
          LET r == RunAttrGroupOp(op, a, [groups |-> groups, attrs |-> attrs])
          IN  /\ a.failAt <= r.cmds
              /\ pre' = Snapshot
              /\ groups' = r.scene.groups
              /\ attrs' = r.scene.attrs
              /\ call' = [api |-> "attributes", op |-> op.name, args |-> a,
                          outcome |-> r.outcome, message |-> r.message,
                          state |-> r.state, raw |-> r.raw, resolved |-> r.resolved,
                          log |-> r.log, list |-> r.list]
    /\ UNCHANGED <<nodeType, selection, members, renderer, prev>>

vray_object_id == Idle /\ AttrGroupOp(OP_vray_object_id)

vray_user_attributes == Idle /\ AttrGroupOp(OP_vray_user_attributes)

vray_subdivision == Idle /\ AttrGroupOp(OP_vray_subdivision)

vray_subquality == Idle /\ AttrGroupOp(OP_vray_subquality)

vray_displacement == Idle /\ AttrGroupOp(OP_vray_displacement)

vray_roundedges == Idle /\ AttrGroupOp(OP_vray_roundedges)

vray_fogFadeOut == Idle /\ AttrGroupOp(OP_vray_fogFadeOut)

vray_phoenix_object == Idle /\ AttrGroupOp(OP_vray_phoenix_object)

vray_nurbsStaticGeom == Idle /\ AttrGroupOp(OP_vray_nurbsStaticGeom)

vray_nurbscurve_renderable == Idle /\ AttrGroupOp(OP_vray_nurbscurve_renderable)

vray_material_id == Idle /\ AttrGroupOp(OP_vray_material_id)

vray_specific_mtl == Idle /\ AttrGroupOp(OP_vray_specific_mtl)

vray_closed_volume == Idle /\ AttrGroupOp(OP_vray_closed_volume)

vray_cameraPhysical == Idle /\ AttrGroupOp(OP_vray_cameraPhysical)

vray_cameraOverrides == Idle /\ AttrGroupOp(OP_vray_cameraOverrides)

vray_cameraDome == Idle /\ AttrGroupOp(OP_vray_cameraDome)

vray_light == Idle /\ AttrGroupOp(OP_vray_light)

vray_directlight == Idle /\ AttrGroupOp(OP_vray_directlight)

vray_pointLight == Idle /\ AttrGroupOp(OP_vray_pointLight)

vray_arealight == Idle /\ AttrGroupOp(OP_vray_arealight)

vray_file_gamma == Idle /\ AttrGroupOp(OP_vray_file_gamma)

vray_file_allow_neg_colors == Idle /\ AttrGroupOp(OP_vray_file_allow_neg_colors)

vray_file_ifl == Idle /\ AttrGroupOp(OP_vray_file_ifl)

vray_texture_filter == Idle /\ AttrGroupOp(OP_vray_texture_filter)

vray_2d_placement_options == Idle /\ AttrGroupOp(OP_vray_2d_placement_options)

vray_samplerinfo_extra_tex == Idle /\ AttrGroupOp(OP_vray_samplerinfo_extra_tex)

vray_skip_export == Idle /\ AttrGroupOp(OP_vray_skip_export)

(***************************************************************************)
(* Initial scenes.                                                         *)
(***************************************************************************)
SceneKinds ==
    {<<"mesh", "file">>, <<"nurbsSurface", "VRayPtex">>, <<"nurbsCurve", "substance">>,
     <<"camera", "imagePlane">>, <<"ambientLight", "place2dTexture">>,
     <<"directionalLight", "samplerInfo">>, <<"pointLight", "file">>,
     <<"spotLight", "substance">>, <<"areaLight", "place2dTexture">>,
     <<"VRayLightDomeShape", "samplerInfo">>, <<"VRayLightRectShape", "VRayPtex">>,
     <<"VRayLightSphereShape", "imagePlane">>}

SceneTypes(kind) ==
    [n \in Nodes |->
        CASE n \in {"grp", "xf"} -> "transform"
          [] n = "shp" -> kind[1]
          [] n = "tex" -> kind[2]
          [] n = "mat" -> "lambert"]

\* The node types an operation's group is meant for.
MeantFor(op, type) ==
    \/ type \in Range(op.validTypes)
    \/ op.hasAllowTransform /\ type = "transform"
    \/ op.family = "materials" /\ type \in MaterialTypes

\* A scene in which every node carries every group meant for its type, the
\* attributes holding values set earlier.
DressedGroups(types) ==
    {p \in Nodes \X {o.group : o \in OpTable} :
        \E o \in OpTable : o.group = p[2] /\ MeantFor(o, types[p[1]])}

DressedAttrs(types) ==
    LET dom == UNION {{<<p[1], a>> : a \in GroupAttrs(p[2])} : p \in DressedGroups(types)}
    IN  [k \in dom |-> OldValue]

InitSelections == {<<>>, <<"grp", "xf", "tex", "mat">>}

InitAttributes ==
    /\ \E kind \in SceneKinds : nodeType = SceneTypes(kind)
    /\ selection \in InitSelections
    /\ \E dressed \in BOOLEAN :
          /\ groups = IF dressed THEN DressedGroups(nodeType) ELSE {}
          /\ attrs = IF dressed THEN DressedAttrs(nodeType) ELSE << >>
    /\ members = << >>
    /\ renderer = PlainRenderer
    /\ pre = Snapshot
    /\ call = NoCall
    /\ prev = NoCall

NextAttributes ==
    \/ vray_object_id
    \/ vray_user_attributes
    \/ vray_subdivision
    \/ vray_subquality
    \/ vray_displacement
    \/ vray_roundedges
    \/ vray_fogFadeOut
    \/ vray_phoenix_object
    \/ vray_nurbsStaticGeom
    \/ vray_nurbscurve_renderable
    \/ vray_material_id
    \/ vray_specific_mtl
    \/ vray_closed_volume
    \/ vray_cameraPhysical
    \/ vray_cameraOverrides
    \/ vray_cameraDome
    \/ vray_light
    \/ vray_directlight
    \/ vray_pointLight
    \/ vray_arealight
    \/ vray_file_gamma
    \/ vray_file_allow_neg_colors
    \/ vray_file_ifl
    \/ vray_texture_filter
    \/ vray_2d_placement_options
    \/ vray_samplerinfo_extra_tex
    \/ vray_skip_export

SpecAttributes == InitAttributes /\ [][NextAttributes]_vars


(***************************************************************************)
(* objectProperties.py.  Object-properties sets are nodes of the scene;    *)
(* members maps a set to the nodes connected to it.                        *)
(***************************************************************************)
\* Most set nodes a scene holds.
MaxSets == 4
\* A behaviour's calls deviate from objectProperties(cmd) on a host without
\* failures in at most this many places, all calls together.
MaxDevs == 2

DefaultType == "VRayObjectProperties"
ObjectPropertiesTypes == {"VRayObjectProperties", "VRayDisplacement"}
Commands == {"add_single", "add_multiple", "remove", "remove_sub"}

\* The names the host gives to nodes called base: base, then base with the
\* first free number.
Series(base) ==
    CASE base = "vrayobjectproperties" ->
            <<"vrayobjectproperties", "vrayobjectproperties1", "vrayobjectproperties2",
              "vrayobjectproperties3", "vrayobjectproperties4", "vrayobjectproperties5">>
      [] base = "vrayDisplacement" ->
            <<"vrayDisplacement", "vrayDisplacement1", "vrayDisplacement2",
              "vrayDisplacement3", "vrayDisplacement4", "vrayDisplacement5">>
      [] base = "props" ->
            <<"props", "props1", "props2", "props3", "props4", "props5">>

\* The name the renderer gives a new set of a type.
BaseName(type) ==
    IF type = "VRayDisplacement" THEN "vrayDisplacement" ELSE "vrayobjectproperties"

AllSetNames == Series("vrayobjectproperties") \o Series("vrayDisplacement") \o Series("props")

\* First name of the series of base that no node has.
UniqueName(base, taken) ==
    LET s == Series(base)
        i == CHOOSE k \in DOMAIN s : s[k] \notin taken /\ \A j \in 1..(k - 1) : s[j] \in taken
    IN  s[i]

\* A scene as objectProperties sees it.
SceneOf(types, sel, mem) == [nodeType |-> types, selection |-> sel, members |-> mem]

SetsOf(sc) == DOMAIN sc.members
SetsOfType(sc, type) == {s \in SetsOf(sc) : sc.nodeType[s] = type}

\* The elements of a set of names as a list; the iteration order of a Python
\* set is not defined, rev stands for the order met.
SetOrder(S, rev) ==
    LET InS(x) == x \in S
        up == SelectSeq(AllSetNames, InS)
    IN  IF rev THEN [i \in DOMAIN up |-> up[Len(up) + 1 - i]] ELSE up

(***************************************************************************)
(* Host commands on a scene.                                               *)
(***************************************************************************)
\* mc.select(nodes, r=1)
SelectReplace(sc, nodes) == [sc EXCEPT !.selection = nodes]
\* mc.select(d=1)
SelectClear(sc) == [sc EXCEPT !.selection = <<>>]

\* mc.ls(names, long=True): the names that still exist.
LsExisting(sc, names) ==
    LET Still(n) == n \in DOMAIN sc.nodeType IN SelectSeq(names, Still)

\* Deleting nodes takes them out of the scene, the selection and the sets.
DeleteNodes(sc, gone) ==
    LET Stays(n) == n \notin gone
    IN  [nodeType |-> [n \in DOMAIN sc.nodeType \ gone |-> sc.nodeType[n]],
         selection |-> SelectSeq(sc.selection, Stays),
         members |-> [s \in SetsOf(sc) \ gone |-> sc.members[s] \ gone]]

\* mc.rename(node, name): the node gets name, or name with the first free
\* number when a node of that name exists; the name it got is returned.
RenamedTo(sc, node, name) == UniqueName(name, DOMAIN sc.nodeType \ {node})

Rename(sc, node, name) ==
    LET new == RenamedTo(sc, node, name)
        R(n) == IF n = node THEN new ELSE n
        Back(n) == IF n = new THEN node ELSE n
    IN  [nodeType |-> [n \in {R(m) : m \in DOMAIN sc.nodeType} |-> sc.nodeType[Back(n)]],
         selection |-> [i \in DOMAIN sc.selection |-> R(sc.selection[i])],
         members |-> [s \in {R(m) : m \in SetsOf(sc)} |-> sc.members[Back(s)]]]

\* getConnectedSets(nodes, type=type): the sets of the type connected to any
\* of the nodes.
getConnectedSets(sc, nodes, type) ==
    {s \in SetsOfType(sc, type) : sc.members[s] \cap Range(nodes) # {}}

(***************************************************************************)
(* The renderer's command mc.vray("objectProperties", cmd, type).  It acts *)
(* on the selected nodes that are not sets themselves.  add_single puts    *)
(* them into one new set, add_multiple into a new set each; remove takes   *)
(* them out of the sets of the type and deletes the sets left empty;       *)
(* remove_sub takes them out and keeps the sets.  An exclusive renderer    *)
(* takes a node out of its sets of the type when it adds it to a new one;  *)
(* a renderer may leave the new sets selected.                             *)
(***************************************************************************)
Targets(sc) ==
    LET Plain(n) == n \in DOMAIN sc.nodeType /\ n \notin SetsOf(sc)
    IN  SelectSeq(sc.selection, Plain)

\* The nodes leave the sets of the type; sets left empty are deleted when
\* deleteEmpty.
Disconnect(sc, nodes, type, deleteEmpty) ==
    LET of == SetsOfType(sc, type)
        mem == [s \in SetsOf(sc) |-> IF s \in of THEN sc.members[s] \ nodes ELSE sc.members[s]]
        empty == {s \in of : sc.members[s] # {} /\ mem[s] = {}}
        out == [sc EXCEPT !.members = mem]
    IN  IF deleteEmpty THEN DeleteNodes(out, empty) ELSE out

\* One new set of the type holding nodes.
CreateSet(sc, type, nodes) ==
    LET new == UniqueName(BaseName(type), DOMAIN sc.nodeType)
    IN  [scene |-> [nodeType |-> [n \in DOMAIN sc.nodeType \cup {new} |->
                                     IF n = new THEN type ELSE sc.nodeType[n]],
                    selection |-> sc.selection,
                    members |-> [s \in SetsOf(sc) \cup {new} |->
                                    IF s = new THEN nodes ELSE sc.members[s]]],
         new |-> new]

RECURSIVE CreateSets(_, _, _, _)
\* A new set for each list of nodes in groups, from the i-th on.
CreateSets(sc, type, parts, i) ==
    IF i > Len(parts) THEN [scene |-> sc, new |-> <<>>]
    ELSE LET c == CreateSet(sc, type, parts[i])
             r == CreateSets(c.scene, type, parts, i + 1)
         IN  [scene |-> r.scene, new |-> <<c.new>> \o r.new]

VrayObjectProperties(sc, cmd, type, rnd) ==
    LET tg == Targets(sc)
        parts == IF cmd = "add_single" THEN <<Range(tg)>>
                 ELSE [i \in DOMAIN tg |-> {tg[i]}]
    IN  IF tg = <<>> \/ cmd \notin Commands THEN sc
        ELSE IF cmd \in {"add_single", "add_multiple"}
        THEN LET base == IF rnd.exclusive THEN Disconnect(sc, Range(tg), type, TRUE) ELSE sc
                 c == CreateSets(base, type, parts, 1)
             IN  IF rnd.selectsNew THEN SelectReplace(c.scene, c.new) ELSE c.scene
        ELSE Disconnect(sc, Range(tg), type, cmd = "remove")

(***************************************************************************)
(* objectProperties(cmd, type, nodes, name)                                *)
(***************************************************************************)
HostCmd(cmd, arg) == [cmd |-> cmd, arg |-> arg]

\* The places at which the host may raise.
FailSites == {"getConnectedSets_pre", "vray", "getConnectedSets_post", "rename"}

RECURSIVE RenameAll(_, _, _, _)
\* [mc.rename(s, name) for s in new_sets], from the i-th on: the scene and
\* the names returned.
RenameAll(sc, order, name, i) ==
    IF i > Len(order) THEN [scene |-> sc, names |-> <<>>]
    ELSE LET got == RenamedTo(sc, order[i], name)
             r == RenameAll(Rename(sc, order[i], name), order, name, i + 1)
         IN  [scene |-> r.scene, names |-> <<got>> \o r.names]

\* The restoration of lines 97-104.
RestoreSelection(sc, pre_sel) ==
    LET still == LsExisting(sc, pre_sel)
    IN  IF still # <<>>
        THEN [scene |-> SelectReplace(sc, still),
              log |-> <<HostCmd("ls", pre_sel), HostCmd("select", still)>>]
        ELSE [scene |-> SelectClear(sc),
              log |-> <<HostCmd("ls", pre_sel), HostCmd("select_clear", <<>>)>>]

Result(outcome, returned, sc, log, sel, preSets, postSets) ==
    [outcome |-> outcome, returned |-> returned, scene |-> sc, log |-> log, sel |-> sel,
     preSets |-> preSets, postSets |-> postSets]

\* The early return left out.
EmptySelection_never(sel) == FALSE

\* "if not sel: return []"
EmptySelection(sel) == sel = <<>>

\* The new sets taken to be all the sets connected after the command.
NewSets_all(preSets, postSets) == postSets

\* new_sets = post_connected_sets - pre_connected_sets
NewSets(preSets, postSets) == postSets \ preSets

\* The deleted sets never looked for.
DeletedSets_none(preSets, postSets) == {}

\* deleted_sets = pre_connected_sets - post_connected_sets
DeletedSets(preSets, postSets) == preSets \ postSets

\* The created names returned in place of the names the renames report.
ReturnCreated_noRename(a, pre_sel, sc2, log4, sel, preSets, postSets, order) ==
    LET renamed == RenameAll(sc2, order, a.name, 1)
        sc3 == IF a.name # None THEN renamed.scene ELSE sc2
        log5 == IF a.name # None
                THEN log4 \o [i \in DOMAIN order |-> HostCmd("rename", <<order[i], a.name>>)]
                ELSE log4
        back == RestoreSelection(sc3, pre_sel)
    IN  IF a.name # None /\ a.fail = "rename"
        THEN Result("HostError", <<>>, sc2,
                    Append(log4, HostCmd("rename", <<order[1], a.name>>)),
                    sel, preSets, postSets)
        ELSE IF ~a.nodes.isNone
        THEN Result("ok", order, back.scene, log5 \o back.log, sel, preSets, postSets)
        ELSE Result("ok", order, sc3, log5, sel, preSets, postSets)

\* Lines 92-106: the new sets, renamed if a name is given; the selection put
\* back if nodes was given.
ReturnCreated(a, pre_sel, sc2, log4, sel, preSets, postSets, order) ==
    LET renamed == RenameAll(sc2, order, a.name, 1)
        sc3 == IF a.name # None THEN renamed.scene ELSE sc2
        names == IF a.name # None THEN renamed.names ELSE order
        log5 == IF a.name # None
                THEN log4 \o [i \in DOMAIN order |-> HostCmd("rename", <<order[i], a.name>>)]
                ELSE log4
        back == RestoreSelection(sc3, pre_sel)
    IN  IF a.name # None /\ a.fail = "rename"
        THEN Result("HostError", <<>>, sc2,
                    Append(log4, HostCmd("rename", <<order[1], a.name>>)),
                    sel, preSets, postSets)
        ELSE IF ~a.nodes.isNone
        THEN Result("ok", names, back.scene, log5 \o back.log, sel, preSets, postSets)
        ELSE Result("ok", names, sc3, log5, sel, preSets, postSets)

\* Lines 89-115: what the call returns, given the sets connected before and
\* after the command.
ReturnDifference(a, pre_sel, sc2, log4, sel, preSets, postSets, rev) ==
    IF NewSets(preSets, postSets) # {}
    THEN ReturnCreated(a, pre_sel, sc2, log4, sel, preSets, postSets,
                       SetOrder(NewSets(preSets, postSets), rev))
    ELSE IF DeletedSets(preSets, postSets) # {}
    THEN Result("ok", SetOrder(DeletedSets(preSets, postSets), rev), sc2, log4, sel,
                preSets, postSets)
    ELSE Result("ok", <<>>, sc2, log4, sel, preSets, postSets)

\* The selection put back when the second query raises.
AfterCommand_restoring(a, pre_sel, sc2, log3, sel, type, preSets, rev) ==
    IF a.fail = "getConnectedSets_post"
    THEN Result("HostError", <<>>,
                IF a.nodes.isNone THEN sc2 ELSE RestoreSelection(sc2, pre_sel).scene,
                Append(log3, HostCmd("getConnectedSets", sel)), sel, preSets, {})
    ELSE ReturnDifference(a, pre_sel, sc2, Append(log3, HostCmd("getConnectedSets", sel)),
                          sel, preSets, getConnectedSets(sc2, sel, type), rev)

\* Line 88: the sets connected after the command.
AfterCommand(a, pre_sel, sc2, log3, sel, type, preSets, rev) ==
    IF a.fail = "getConnectedSets_post"
    THEN Result("HostError", <<>>, sc2, Append(log3, HostCmd("getConnectedSets", sel)),
                sel, preSets, {})
    ELSE ReturnDifference(a, pre_sel, sc2, Append(log3, HostCmd("getConnectedSets", sel)),
                          sel, preSets, getConnectedSets(sc2, sel, type), rev)

\* Lines 79-85: the default type, the sets connected before, the command.
BracketCommand(a, pre_sel, sc1, log1, sel, type, rnd, rev) ==
    LET log2 == Append(log1, HostCmd("getConnectedSets", sel))
        log3 == Append(log2, HostCmd("objectProperties", <<a.cmd, type>>))
    IN  IF a.fail = "getConnectedSets_pre"
        THEN Result("HostError", <<>>, sc1, log2, sel, {}, {})
        ELSE IF a.fail = "vray"
        THEN Result("HostError", <<>>, sc1, log3, sel, getConnectedSets(sc1, sel, type), {})
        ELSE AfterCommand(a, pre_sel, VrayObjectProperties(sc1, a.cmd, type, rnd), log3, sel,
                          type, getConnectedSets(sc1, sel, type), rev)

\* Lines 73-75: the selection read; nothing selected ends the call.
ReadSelection(a, pre_sel, sc1, log1, rnd, rev) ==
    IF EmptySelection(sc1.selection) THEN Result("ok", <<>>, sc1, log1, <<>>, {}, {})
    ELSE BracketCommand(a, pre_sel, sc1, log1, sc1.selection,
                        IF a.type = None THEN DefaultType ELSE a.type, rnd, rev)

\* The selection saved, set and read back also when nodes is not given.
RunObjectProperties_reselecting(a, sc, rnd, rev) ==
    ReadSelection(a, sc.selection,
                  SelectReplace(sc, IF a.nodes.isNone THEN sc.selection ELSE a.nodes.items),
                  <<HostCmd("ls_selection", <<>>),
                    HostCmd("select", IF a.nodes.isNone THEN sc.selection ELSE a.nodes.items),
                    HostCmd("ls_selection", <<>>)>>, rnd, rev)

\* The whole function on scene sc with renderer rnd; rev is the order in
\* which Python iterates its sets.
RunObjectProperties(a, sc, rnd, rev) ==
    IF ~a.nodes.isNone
    THEN ReadSelection(a, sc.selection, SelectReplace(sc, a.nodes.items),
                       <<HostCmd("ls_selection", <<>>), HostCmd("select", a.nodes.items),
                         HostCmd("ls_selection", <<>>)>>, rnd, rev)
    ELSE ReadSelection(a, sc.selection, sc, <<HostCmd("ls_selection", <<>>)>>, rnd, rev)

\* The host raises at a.fail only if the call gets there.
FailReached(a, r) ==
    \/ a.fail = None
    \/ /\ r.outcome = "HostError"
       /\ r.log # <<>>
       /\ LET last == r.log[Len(r.log)].cmd
          IN  \/ a.fail = "getConnectedSets_pre" /\ last = "getConnectedSets"
              \/ a.fail = "vray" /\ last = "objectProperties"
              \/ a.fail = "getConnectedSets_post" /\ last = "getConnectedSets"
              \/ a.fail = "rename" /\ last = "rename"

(***************************************************************************)
(* The calls of objectProperties.                                          *)
(***************************************************************************)
NodeLists == {<<>>, <<"xf">>, <<"xf", "shp">>}
NameInputs == {"props", "vrayobjectproperties"}
TypeInputs == {"VRayDisplacement"}

OPItems ==
    {Item("type", <<>>, PyNone, t, 0) : t \in TypeInputs}
    \cup {Item("nodes", l, PyNone, None, 0) : l \in NodeLists}
    \cup {Item("name", <<>>, PyNone, n, 0) : n \in NameInputs}
    \cup {Item("fail", <<>>, PyNone, f, 0) : f \in FailSites}

OPArgsOf(cmd, D) ==
    [cmd |-> cmd,
     type |-> IF Has(D, "type") THEN The(D, "type").name ELSE None,
     nodes |-> IF Has(D, "nodes") THEN ListOf(The(D, "nodes").list) ELSE NoneList,
     name |-> IF Has(D, "name") THEN The(D, "name").name ELSE None,
     fail |-> IF Has(D, "fail") THEN The(D, "fail").name ELSE None]

OPDeviations(k) == {D \in UpTo(OPItems, k) : \A x, y \in D : x.key = y.key => x = y}

DevsSoFar == IF call.api = "objectProperties" THEN call.devs ELSE 0

objectProperties ==
    /\ prev.api = "none"
    /\ \E cmd \in Commands, D \in OPDeviations(MaxDevs - DevsSoFar), rev \in BOOLEAN :
          LET a == OPArgsOf(cmd, D)
              sc == SceneOf(nodeType, selection, members)
              r == RunObjectProperties(a, sc, renderer, rev)
          IN  /\ FailReached(a, r)
              /\ rev => (Cardinality(r.postSets \ r.preSets) > 1
                            \/ Cardinality(r.preSets \ r.postSets) > 1)
              /\ Cardinality(DOMAIN r.scene.members) <= MaxSets
              /\ pre' = Snapshot
              /\ nodeType' = r.scene.nodeType
              /\ selection' = r.scene.selection
              /\ members' = r.scene.members
              /\ call' = [api |-> "objectProperties", args |-> a,
                          devs |-> DevsSoFar + Cardinality(D),
                          outcome |-> r.outcome, returned |-> r.returned, log |-> r.log,
                          sel |-> r.sel, preSets |-> r.preSets, postSets |-> r.postSets]
              /\ prev' = call
    /\ UNCHANGED <<groups, attrs, renderer>>

(***************************************************************************)
(* Initial scenes of objectProperties: the mesh scene with no set, with    *)
(* one set, or with a set of each type.                                    *)
(***************************************************************************)
InitSets ==
    {<< >>,
     [s \in {"vrayobjectproperties"} |-> {"xf"}],
     [s \in {"vrayobjectproperties", "vrayDisplacement"} |->
         IF s = "vrayDisplacement" THEN {"shp"} ELSE {"xf", "shp"}]}

SetType(s) == IF s = "vrayDisplacement" THEN "VRayDisplacement" ELSE DefaultType

Renderers == [selectsNew : BOOLEAN, exclusive : BOOLEAN]

InitObjectProperties ==
    /\ \E mem \in InitSets :
          /\ members = mem
          /\ nodeType = [n \in Nodes \cup DOMAIN mem |->
                            IF n \in Nodes THEN SceneTypes(<<"mesh", "file">>)[n]
                            ELSE SetType(n)]
          /\ selection \in {<<>>, <<"xf">>, <<"shp">> \o SetOrder(DOMAIN mem, FALSE)}
    /\ renderer \in Renderers
    /\ groups = {}
    /\ attrs = << >>
    /\ pre = Snapshot
    /\ call = NoCall
    /\ prev = NoCall

NextObjectProperties == objectProperties

SpecObjectProperties == InitObjectProperties /\ [][NextObjectProperties]_vars

\* ---------------------------------------------------------------------------
\* core.py: rendering and render elements
\* ---------------------------------------------------------------------------

\* How many extra keyword arguments one call of addRenderElement carries.
MaxKw == 2

RenderElementType == "VRayRenderElement"
ClassTypes == {"MultiMatteElement", "diffuseChannel"}

\* The attributes vrayAddRenderElement gives a node of each class, next to
\* vrayClassType and enabled.
ClassAttrs(ct) ==
    IF ct = "MultiMatteElement"
    THEN {"vray_name_multimatte", "vray_redid_multimatte"}
    ELSE {"vray_name_diffuse"}

\* The name vrayAddRenderElement asks for when it creates a node of a class.
ElementBase(ct) ==
    IF ct = "MultiMatteElement" THEN "vrayRE_Multi_Matte" ELSE "vrayRE_Diffuse"

ElementNames(base) == <<base, base \o "1", base \o "2">>

\* The first free name of a series, as Maya makes a requested name unique.
FreeName(types, base) ==
    LET s == ElementNames(base)
        i == CHOOSE k \in 1..Len(s) :
                 /\ s[k] \notin DOMAIN types
                 /\ \A j \in 1..(k - 1) : s[j] \in DOMAIN types
    IN  s[i]

\* The scene as core.py sees it: the nodes and their attributes.
CoreScene == [nodeType |-> nodeType, attrs |-> attrs]

\* mc.objExists of a node name or of a node.attribute name
ObjExists(sc, name) == name \in DOMAIN sc.nodeType
AttrExists(sc, node, attr) == <<node, attr>> \in DOMAIN sc.attrs

\* mc.editRenderLayerGlobals(q=1, currentRenderLayer=True)
CurrentRenderLayer(sc) == sc.attrs[<<"renderLayerManager", "currentRenderLayer">>]

CoreCmd(cmd, arg) == [cmd |-> cmd, arg |-> arg]

CoreResult(outcome, message, returned, list, log, sc) ==
    [outcome |-> outcome, message |-> message, returned |-> returned, list |-> list,
     log |-> log, scene |-> sc]

\* Lines 5-7: loadVray
RunLoadVray(sc) ==
    CoreResult("ok", None, None, <<>>,
               <<CoreCmd("loadPlugin", <<"vrayformaya.mll">>)>>, sc)

\* The flags of the render command with the -bake flag always present.
RenderFlags_alwaysBake(camera, layer, bake, batch) ==
    <<"-camera", camera, "-layer", layer, "-bake">>
        \o (IF batch THEN <<"-batch">> ELSE <<>>)

\* Lines 43-61: the flags handed to the render command
RenderFlags(camera, layer, bake, batch) ==
    <<"-camera", camera, "-layer", layer>>
        \o (IF bake THEN <<"-bake">> ELSE <<>>)
        \o (IF batch THEN <<"-batch">> ELSE <<>>)

\* Line 63: return mc.vrend(*cmds)
Vrend(sc, log, flags, fail, res) ==
    IF fail
    THEN CoreResult("HostError", None, None, <<>>, Append(log, CoreCmd("vrend", flags)), sc)
    ELSE CoreResult("ok", None, res, <<>>, Append(log, CoreCmd("vrend", flags)), sc)

\* Lines 51-52: the current render layer is read when no layer is given.
WithLayer(sc, log, camera, layer, bake, batch, fail, res) ==
    IF layer = None
    THEN Vrend(sc, Append(log, CoreCmd("editRenderLayerGlobals", <<"currentRenderLayer">>)),
               RenderFlags(camera, CurrentRenderLayer(sc), bake, batch), fail, res)
    ELSE Vrend(sc, log, RenderFlags(camera, layer, bake, batch), fail, res)

\* The camera taken to exist without asking the scene.
CameraMissing_never(sc, camera) == FALSE

\* Line 45: if not mc.objExists(camera)
CameraMissing(sc, camera) == ~ObjExists(sc, camera)

\* Lines 23-63: vrayRender, entered with the host commands issued so far
RunVrayRender(sc, log, camera, layer, bake, batch, fail, res) ==
    IF CameraMissing(sc, camera)
    THEN CoreResult("RuntimeError", "Camera doesn't exist.", None, <<>>,
                    Append(log, CoreCmd("objExists", <<camera>>)), sc)
    ELSE WithLayer(sc, Append(log, CoreCmd("objExists", <<camera>>)),
                   camera, layer, bake, batch, fail, res)

\* Lines 10-20: vrayStartBake
RunVrayStartBake(sc, fail, res) ==
    RunVrayRender(sc, <<CoreCmd("editRenderLayerGlobals", <<"currentRenderLayer">>)>>,
                  "persp", CurrentRenderLayer(sc), TRUE, FALSE, fail, res)

(***************************************************************************)
(* Render elements                                                         *)
(***************************************************************************)

\* The names a render element of the modelled scenes can have, in the order
\* the scene lists them.
AllElementNames ==
    ElementNames("vrayRE_Multi_Matte") \o ElementNames("vrayRE_Diffuse")
        \o ElementNames("beauty")

\* mc.ls(type="VRayRenderElement")
LsElements(sc) ==
    SelectSeq(AllElementNames,
              LAMBDA n : n \in DOMAIN sc.nodeType /\ sc.nodeType[n] = RenderElementType)

\* mc.ls(names, type="VRayRenderElement")
LsElementsAmong(sc, names) ==
    SelectSeq(names,
              LAMBDA n : n \in DOMAIN sc.nodeType /\ sc.nodeType[n] = RenderElementType)

\* Lines 66-75: getRenderElementClassType
getRenderElementClassType(sc, renderElement) == sc.attrs[<<renderElement, "vrayClassType">>]

RunGetRenderElementClassType(sc, node) ==
    IF AttrExists(sc, node, "vrayClassType")
    THEN CoreResult("ok", None, getRenderElementClassType(sc, node), <<>>,
                    <<CoreCmd("getAttr", <<node, "vrayClassType">>)>>, sc)
    ELSE CoreResult("HostError", None, None, <<>>,
                    <<CoreCmd("getAttr", <<node, "vrayClassType">>)>>, sc)

\* A class-type filter as Python passes it: None, a string, a tuple or a list.
NoFilter == [kind |-> "None", text |-> "", items |-> <<>>]
StrFilter(s) == [kind |-> "str", text |-> s, items |-> <<>>]
TupleFilter(t) == [kind |-> "tuple", text |-> "", items |-> t]
ListFilter(t) == [kind |-> "list", text |-> "", items |-> t]

\* Any filter other than None taken as given.
FilterGiven_always(f) == f.kind # "None"

\* Line 99: if vrayClassType
FilterGiven(f) ==
    CASE f.kind = "None" -> FALSE
      [] f.kind = "str" -> f.text # ""
      [] OTHER -> f.items # <<>>

\* A tuple or list filter taken as one value.
FilterSet_single(f) == {f.text}

\* Lines 100-103: the filter as a set
FilterSet(f) == IF f.kind \in {"tuple", "list"} THEN Range(f.items) ELSE {f.text}

\* Line 105: the candidates whose class type is in the filter, each read once
FilterElements(sc, elements, f) ==
    CoreResult("ok", None, None,
               SelectSeq(elements,
                         LAMBDA x : getRenderElementClassType(sc, x) \in FilterSet(f)),
               [i \in DOMAIN elements |-> CoreCmd("getAttr", <<elements[i], "vrayClassType">>)],
               sc)

\* Lines 96-107, given the candidates
ReturnElements(sc, elements, f) ==
    IF elements = <<>>
    THEN CoreResult("ok", None, None, <<>>, <<>>, sc)
    ELSE IF FilterGiven(f)
    THEN FilterElements(sc, elements, f)
    ELSE CoreResult("ok", None, None, elements, <<>>, sc)

\* Lines 78-107: getRenderElements
RunGetRenderElements(sc, renderElements, f) ==
    IF renderElements.isNone
    THEN ReturnElements(sc, LsElements(sc), f)
    ELSE ReturnElements(sc, LsElementsAmong(sc, renderElements.items), f)

(***************************************************************************)
(* addRenderElement                                                        *)
(***************************************************************************)

\* The keywords a call may carry, each spelled out so that its prefix can be
\* looked at.
Spelling ==
    [vray_redid_multimatte |->
         <<"v","r","a","y","_","r","e","d","i","d","_","m","u","l","t","i","m","a","t","t","e">>,
     vray_name_diffuse |->
         <<"v","r","a","y","_","n","a","m","e","_","d","i","f","f","u","s","e">>,
     vray_bogus |-> <<"v","r","a","y","_","b","o","g","u","s">>,
     Vray_bogus |-> <<"V","r","a","y","_","b","o","g","u","s">>,
     enabled |-> <<"e","n","a","b","l","e","d">>,
     vra |-> <<"v","r","a">>]

\* str.startswith
StartsWith(s, prefix) ==
    /\ Len(s) >= Len(prefix)
    /\ SubSeq(s, 1, Len(prefix)) = prefix

\* Every keyword taken as an attribute of the node.
IsVrayKeyword_any(kw) == TRUE

\* Line 149: if kw.startswith("vray")
IsVrayKeyword(kw) == StartsWith(Spelling[kw], <<"v","r","a","y">>)

\* Lines 150-157: one keyword/value pair
SetKeyword(st, node, pair) ==
    IF ~IsVrayKeyword(pair.kw)
    THEN st
    ELSE IF ~AttrExists(st.scene, node, pair.kw)
    THEN [st EXCEPT !.log = st.log \o <<CoreCmd("objExists", <<node, pair.kw>>),
                                          CoreCmd("warning", <<node, pair.kw>>)>>]
    ELSE [scene |-> [st.scene EXCEPT !.attrs[<<node, pair.kw>>] = pair.value],
          log |-> st.log \o <<CoreCmd("objExists", <<node, pair.kw>>),
                              CoreCmd("setAttr", <<node, pair.kw, pair.value,
                                                   IF pair.isString THEN "string" ELSE "plain">>)>>]

\* Only the first keyword/value pair looked at.
SetKeywords_first(st, node, kwargs, i) ==
    IF kwargs = <<>> THEN st ELSE SetKeyword(st, node, kwargs[1])

\* Lines 148-157: for kw, value in kwargs.iteritems()
RECURSIVE SetKeywords(_, _, _, _)
SetKeywords(st, node, kwargs, i) ==
    IF i > Len(kwargs) THEN st
    ELSE SetKeywords(SetKeyword(st, node, kwargs[i]), node, kwargs, i + 1)

\* Line 159: return node
ReturnNode(st, node) == CoreResult("ok", None, node, <<>>, st.log, st.scene)

\* Lines 145-146: the suffix, then the keywords
WriteSuffix(sc, log, node, a) ==
    IF a.suffix = None
    THEN ReturnNode(SetKeywords([scene |-> sc, log |-> log], node, a.kwargs, 1), node)
    ELSE IF ~AttrExists(sc, node, "vray_name_multimatte")
    THEN CoreResult("HostError", None, None, <<>>,
                    Append(log, CoreCmd("setAttr", <<node, "vray_name_multimatte",
                                                     a.suffix, "string">>)), sc)
    ELSE ReturnNode(
             SetKeywords([scene |-> [sc EXCEPT !.attrs[<<node, "vray_name_multimatte">>] = a.suffix],
                          log |-> Append(log, CoreCmd("setAttr",
                                      <<node, "vray_name_multimatte", a.suffix, "string">>))],
                         node, a.kwargs, 1), node)

\* Lines 142-143: if not enabled
WriteEnabled(sc, log, node, a) ==
    IF ~a.enabled
    THEN WriteSuffix([sc EXCEPT !.attrs[<<node, "enabled">>] = "False"],
                     Append(log, CoreCmd("setAttr", <<node, "enabled", "False", "plain">>)),
                     node, a)
    ELSE WriteSuffix(sc, log, node, a)

\* mc.rename(node, name): the node under the first free name of the series
RenameElement(sc, node, name) ==
    LET new == FreeName([n \in DOMAIN sc.nodeType \ {node} |-> sc.nodeType[n]], name)
        into(n) == IF n = new THEN node ELSE n
    IN  [name |-> new,
         scene |-> [nodeType |-> [n \in (DOMAIN sc.nodeType \ {node}) \cup {new} |->
                                      sc.nodeType[into(n)]],
                    attrs |-> [p \in {q \in DOMAIN sc.attrs : q[1] # node}
                                     \cup {<<new, q[2]>> : q \in {r \in DOMAIN sc.attrs : r[1] = node}}
                                 |-> sc.attrs[<<into(p[1]), p[2]>>]]]]

\* The rename target never used.
RenameGiven_never(a) == FALSE

\* Line 139: if name is not None
RenameGiven(a) == a.name # None

\* Lines 139-140
Renamed(r, log, node, a) ==
    WriteEnabled(r.scene, Append(log, CoreCmd("rename", <<node, a.name>>)), r.name, a)

AfterCreate(sc, log, node, a) ==
    IF RenameGiven(a)
    THEN Renamed(RenameElement(sc, node, a.name), log, node, a)
    ELSE WriteEnabled(sc, log, node, a)

\* mel.eval("vrayAddRenderElement <class>"): a new node of the class with its
\* attributes at their defaults
CreateElement(sc, node, ct) ==
    [nodeType |-> [n \in DOMAIN sc.nodeType \cup {node} |->
                       IF n = node THEN RenderElementType ELSE sc.nodeType[n]],
     attrs |-> [p \in DOMAIN sc.attrs
                      \cup {<<node, x>> : x \in ClassAttrs(ct) \cup {"vrayClassType", "enabled"}}
                  |-> IF p[1] # node THEN sc.attrs[p]
                      ELSE IF p[2] = "vrayClassType" THEN ct
                      ELSE IF p[2] = "enabled" THEN "True"
                      ELSE ""]]

Created(sc, node, a) ==
    AfterCreate(CreateElement(sc, node, a.vrayClassType),
                <<CoreCmd("mel.eval", <<"vrayAddRenderElement", a.vrayClassType>>)>>,
                node, a)

\* Lines 110-159: addRenderElement
RunAddRenderElement(sc, a) ==
    IF a.fail
    THEN CoreResult("HostError", None, None, <<>>,
                    <<CoreCmd("mel.eval", <<"vrayAddRenderElement", a.vrayClassType>>)>>, sc)
    ELSE Created(sc, FreeName(sc.nodeType, ElementBase(a.vrayClassType)), a)

(***************************************************************************)
(* The calls of core.py. A behaviour is one call.                          *)
(***************************************************************************)
CameraInputs == {"persp", "cam1", "ghost"}
LayerInputs == {None, "layer1", ""}
VrendResults == {"done", "queued"}

ElementLists ==
    {NoneList, ListOf(<<"xf">>), ListOf(<<"beauty", "ghost">>),
     ListOf(<<"vrayRE_Diffuse", "xf", "vrayRE_Multi_Matte">>)}
FilterInputs ==
    {NoFilter, StrFilter("diffuseChannel"), StrFilter("noSuchClass"), StrFilter(""),
     TupleFilter(<<>>), TupleFilter(<<"MultiMatteElement", "diffuseChannel">>),
     ListFilter(<<"MultiMatteElement">>), ListFilter(<<>>)}

\* A keyword with the value the calls give it.
Keyword(kw) ==
    [kw |-> kw,
     value |-> IF kw = "vray_redid_multimatte" THEN "3" ELSE "text",
     isString |-> kw # "vray_redid_multimatte"]

\* The keyword dictionaries of at most MaxKw entries, in the order the
\* iteration visits them.
KwargsInputs ==
    {s \in UNION {[1..n -> {Keyword(k) : k \in DOMAIN Spelling}] : n \in 0..MaxKw} :
        \A i, j \in DOMAIN s : i # j => s[i].kw # s[j].kw}

NameInputsCore == {None, "beauty", "vrayRE_Diffuse"}
SuffixInputs == {None, "sfx"}

CoreCall(fn, a, r) ==
    /\ pre' = Snapshot
    /\ nodeType' = r.scene.nodeType
    /\ attrs' = r.scene.attrs
    /\ call' = [api |-> "core", fn |-> fn, args |-> a, outcome |-> r.outcome,
                message |-> r.message, returned |-> r.returned, list |-> r.list,
                log |-> r.log]
    /\ UNCHANGED <<selection, groups, members, renderer, prev>>

loadVray == Idle /\ CoreCall("loadVray", [none |-> TRUE], RunLoadVray(CoreScene))

vrayStartBake ==
    /\ Idle
    /\ \E fail \in BOOLEAN, res \in VrendResults :
          /\ fail => ObjExists(CoreScene, "persp") /\ res = "done"
          /\ CoreCall("vrayStartBake", [fail |-> fail, res |-> res],
                      RunVrayStartBake(CoreScene, fail, res))

vrayRender ==
    /\ Idle
    /\ \E camera \in CameraInputs, layer \in LayerInputs, bake \in BOOLEAN,
          batch \in BOOLEAN, fail \in BOOLEAN, res \in VrendResults :
          /\ fail => ObjExists(CoreScene, camera) /\ res = "done"
          /\ CoreCall("vrayRender",
                      [camera |-> camera, layer |-> layer, bake |-> bake, batch |-> batch,
                       fail |-> fail, res |-> res],
                      RunVrayRender(CoreScene, <<>>, camera, layer, bake, batch, fail, res))

getRenderElementClassType_call ==
    /\ Idle
    /\ \E node \in {"vrayRE_Diffuse", "beauty", "xf", "ghost"} :
          CoreCall("getRenderElementClassType", [renderElement |-> node],
                   RunGetRenderElementClassType(CoreScene, node))

getRenderElements ==
    /\ Idle
    /\ \E renderElements \in ElementLists, f \in FilterInputs :
          CoreCall("getRenderElements",
                   [renderElements |-> renderElements, vrayClassType |-> f],
                   RunGetRenderElements(CoreScene, renderElements, f))

addRenderElement ==
    /\ Idle
    /\ \E a \in [vrayClassType : ClassTypes, enabled : BOOLEAN, name : NameInputsCore,
                 suffix : SuffixInputs, kwargs : KwargsInputs, fail : BOOLEAN] :
          /\ a.fail => a.enabled /\ a.name = None /\ a.suffix = None /\ a.kwargs = <<>>
          /\ CoreCall("addRenderElement", a, RunAddRenderElement(CoreScene, a))

(***************************************************************************)
(* Initial scenes of core.py: a render layer manager, a transform, the     *)
(* cameras and some render elements.                                       *)
(***************************************************************************)
ElementConfigs ==
    {<< >>,
     [n \in {"vrayRE_Multi_Matte"} |-> "MultiMatteElement"],
     [n \in {"vrayRE_Multi_Matte", "vrayRE_Diffuse"} |->
         IF n = "vrayRE_Diffuse" THEN "diffuseChannel" ELSE "MultiMatteElement"],
     [n \in {"vrayRE_Multi_Matte", "vrayRE_Diffuse", "beauty"} |->
         IF n = "vrayRE_Multi_Matte" THEN "MultiMatteElement" ELSE "diffuseChannel"]}

CoreTypes(cams, elems) ==
    [n \in {"renderLayerManager", "xf"} \cup cams \cup DOMAIN elems |->
        IF n = "renderLayerManager" THEN "renderLayerManager"
        ELSE IF n = "xf" THEN "transform"
        ELSE IF n \in cams THEN "camera"
        ELSE RenderElementType]

CoreAttrs(layer, elems) ==
    [p \in {<<"renderLayerManager", "currentRenderLayer">>}
           \cup UNION {{<<n, x>> : x \in ClassAttrs(elems[n]) \cup {"vrayClassType", "enabled"}} :
                       n \in DOMAIN elems}
       |-> IF p[1] = "renderLayerManager" THEN layer
           ELSE IF p[2] = "vrayClassType" THEN elems[p[1]]
           ELSE IF p[2] = "enabled" THEN "True"
           ELSE ""]

InitCore ==
    /\ \E cams \in SUBSET {"persp", "cam1"}, elems \in ElementConfigs,
          layer \in {"defaultRenderLayer", "layer1"} :
          /\ nodeType = CoreTypes(cams, elems)
          /\ attrs = CoreAttrs(layer, elems)
    /\ selection = <<>>
    /\ groups = {}
    /\ members = << >>
    /\ renderer = PlainRenderer
    /\ pre = Snapshot
    /\ call = NoCall
    /\ prev = NoCall

NextCore ==
    \/ loadVray
    \/ vrayStartBake
    \/ vrayRender
    \/ getRenderElementClassType_call
    \/ getRenderElements
    \/ addRenderElement

SpecCore == InitCore /\ [][NextCore]_vars

(***************************************************************************)
(* The same function called a second time.                                 *)
(***************************************************************************)
\* The second call passes what the first passed (the same list object, as the
\* first call left it), or leaves one attribute-value parameter out.
SecondArgs(drop) == [call.args EXCEPT !.shapes = call.list, !.kw = @ \ drop]

CalledAgain(op, a, r) ==
    /\ pre' = Snapshot
    /\ groups' = r.scene.groups
    /\ attrs' = r.scene.attrs
    /\ call' = [api |-> "attributes", op |-> op.name, args |-> a,
                outcome |-> r.outcome, message |-> r.message, state |-> r.state,
                raw |-> r.raw, resolved |-> r.resolved, log |-> r.log, list |-> r.list]
    /\ prev' = call
    /\ UNCHANGED <<nodeType, selection, members, renderer>>

vray_again ==
    /\ call.api = "attributes"
    /\ prev.api = "none"
    /\ call.args.failAt = 0
    /\ \E drop \in {{}} \cup {{p} : p \in call.args.kw} :
          CalledAgain(OpOf(call.op), SecondArgs(drop),
                      RunAttrGroupOp(OpOf(call.op), SecondArgs(drop),
                                     [groups |-> groups, attrs |-> attrs]))

NextRepeat == NextAttributes \/ vray_again

SpecRepeat == InitAttributes /\ [][NextRepeat]_vars

(***************************************************************************)
(* Properties of the attribute-group operations, over the last call.       *)
(***************************************************************************)
AttrCall == call.api = "attributes"
CalledOp == OpOf(call.op)
LogIndexes(cmd) == {i \in DOMAIN call.log : call.log[i].cmd = cmd}
SceneUntouched == groups = pre.groups /\ attrs = pre.attrs /\ selection = pre.selection
\* The filter of a shape-oriented call: the valid types, and "transform" with
\* allowTransform.
FilterOfCall ==
    Range(CalledOp.validTypes) \cup (IF call.args.allowTransform THEN {"transform"} ELSE {})

\* C1: a call whose state cannot be converted to an integer raises the
\* invalid-input error before anything else: no host query, no renderer
\* command and no attribute write is issued, and the scene is as it was.
C1_InvalidStateRaisesFirst ==
    (AttrCall /\ ~PyIntOf(call.args.state).ok) =>
        /\ call.outcome = "TypeError"
        /\ call.log = <<>>
        /\ SceneUntouched

\* An unconvertible state passed together with an explicit, non-empty list.
C1_Witness ==
    /\ AttrCall
    /\ ~PyIntOf(call.args.state).ok
    /\ ~call.args.shapes.isNone /\ call.args.shapes.items # <<>>
    /\ call.outcome = "TypeError"

\* C2: when the resolved collection is empty the call raises the not-found
\* error; no addAttributesFromGroup command and no attribute write is
\* issued.
C2_EmptyResolutionRaisesNotFound ==
    (AttrCall /\ call.outcome # "TypeError" /\ call.resolved = <<>>) =>
        /\ call.outcome = "RuntimeError"
        /\ call.message = CalledOp.notFound
        /\ LogIndexes("addAttributesFromGroup") = {}
        /\ LogIndexes("setAttr") = {}
        /\ SceneUntouched

\* Input nodes were given (or selected), none resolved to a valid target.
C2_Witness ==
    /\ AttrCall
    /\ call.outcome = "RuntimeError"
    /\ call.raw # <<>>
    /\ call.args.kw # {}

\* C3: with state 0 no invalid-input error is raised, no attribute value is
\* written whatever parameters are given, every command is a group removal,
\* and after a completed call no resolved node carries the group.
C3_StateZeroOnlyRemoves ==
    (AttrCall /\ PyIntOf(call.args.state).ok /\ PyIntOf(call.args.state).n = 0) =>
        /\ call.outcome # "TypeError"
        /\ LogIndexes("setAttr") = {}
        /\ \A i \in LogIndexes("addAttributesFromGroup") :
              call.log[i].state = 0 /\ call.log[i].name = CalledOp.group
        /\ call.outcome = "ok" =>
              /\ \A n \in Range(call.resolved) : <<n, CalledOp.group>> \notin groups
              /\ groups = pre.groups \ {<<n, CalledOp.group>> : n \in Range(call.resolved)}
              /\ \A k \in DOMAIN attrs : k \in DOMAIN pre.attrs /\ attrs[k] = pre.attrs[k]

\* State 0 with a parameter given, on nodes that carried the group.
C3_Witness ==
    /\ AttrCall
    /\ PyIntOf(call.args.state).ok /\ PyIntOf(call.args.state).n = 0
    /\ call.args.kw # {}
    /\ call.outcome = "ok"
    /\ \E n \in Range(call.resolved) : <<n, CalledOp.group>> \in pre.groups

\* C4: with state 1 the attribute named by a parameter is written iff the
\* parameter is given; the written attribute holds the supplied value and is
\* written after the node's group command; the attribute of a parameter
\* that is not given keeps the value it had.
C4_WrittenIffGiven ==
    (AttrCall /\ call.outcome = "ok" /\ call.state = 1) =>
        \A n \in Range(call.resolved) : \A p \in ParamNames(CalledOp) :
            LET W == {i \in LogIndexes("setAttr") :
                         call.log[i].node = n /\ call.log[i].name = p}
                G == {i \in LogIndexes("addAttributesFromGroup") : call.log[i].node = n}
            IN  /\ (W # {}) <=> (p \in call.args.kw)
                /\ p \in call.args.kw =>
                      /\ attrs[<<n, p>>] = ArgValue(p)
                      /\ \A i \in W : \E j \in G : j < i
                /\ (p \notin call.args.kw /\ <<n, p>> \in DOMAIN pre.attrs) =>
                      attrs[<<n, p>>] = pre.attrs[<<n, p>>]

\* C5: a shape-oriented call with smartConvert false (or allowTransform
\* true) resolves to the raw input filtered by the valid types (plus
\* transforms with allowTransform); no node of another type gets the group.
C5_FilteredByValidTypes ==
    (/\ AttrCall
     /\ CalledOp.family = "shapes"
     /\ ~call.args.smartConvert \/ call.args.allowTransform
     /\ call.outcome # "TypeError") =>
        /\ \A n \in Range(call.resolved) : TypeOf(n) \in FilterOfCall
        /\ \A n \in Nodes :
              <<n, CalledOp.group>> \in groups \ pre.groups => TypeOf(n) \in FilterOfCall

\* C6: vray_object_id and vray_user_attributes with allowTransform behave as
\* the same call with smartConvert false: getShapes is not called, every
\* transform of the raw input is resolved, and after a completed call with a
\* true state every one of them carries the group.
C6_AllowTransformForcesPlainFilter ==
    (AttrCall /\ CalledOp.hasAllowTransform /\ call.args.allowTransform
       /\ call.outcome # "TypeError") =>
        LET plain == RunAttrGroupOp(CalledOp, [call.args EXCEPT !.smartConvert = FALSE],
                                    [groups |-> pre.groups, attrs |-> pre.attrs])
            xfs == {n \in Range(call.raw) : Exists(n) /\ TypeOf(n) = "transform"}
        IN  /\ LogIndexes("getShapes") = {}
            /\ call.outcome = plain.outcome
            /\ call.log = plain.log
            /\ groups = plain.scene.groups /\ attrs = plain.scene.attrs
            /\ call.outcome # "RuntimeError" => xfs \subseteq Range(call.resolved)
            /\ (call.outcome = "ok" /\ call.state # 0) =>
                  \A n \in xfs : <<n, CalledOp.group>> \in groups

\* allowTransform with smartConvert left true, on an input of transforms.
C6_Witness ==
    /\ AttrCall
    /\ CalledOp.hasAllowTransform /\ call.args.allowTransform /\ call.args.smartConvert
    /\ call.outcome = "ok" /\ call.state # 0
    /\ call.raw # <<>>
    /\ \A n \in Range(call.raw) : TypeOf(n) = "transform" /\ <<n, CalledOp.group>> \in groups
    /\ \E n \in Range(call.raw) : <<n, CalledOp.group>> \notin pre.groups

(***************************************************************************)
(* Properties of objectProperties, over the last call and the one before.  *)
(***************************************************************************)
OPCall == call.api = "objectProperties"
TypeOfCall(c) == IF c.args.type = None THEN DefaultType ELSE c.args.type
StillExists(n) == n \in DOMAIN nodeType
\* The selection the call reads: the nodes argument, or the selection as it
\* was.
SelectionRead == IF call.args.nodes.isNone THEN pre.selection ELSE call.args.nodes.items
\* The sets connected to that selection when the call started.
ConnectedBefore ==
    getConnectedSets(SceneOf(pre.nodeType, SelectionRead, pre.members), SelectionRead,
                     TypeOfCall(call))

\* C7: after a call with an explicit nodes argument that completes without
\* error, whatever the command and the outcome, the selection is the
\* selection of before the call restricted to the nodes that still exist.
C7_SelectionRestored ==
    (OPCall /\ ~call.args.nodes.isNone /\ call.outcome = "ok") =>
        selection = SelectSeq(pre.selection, StillExists)

C9_ReturnsCreatedElseDeleted ==
    (OPCall /\ call.outcome = "ok" /\ SelectionRead # <<>>) =>
        LET created == call.postSets \ call.preSets
            gone == call.preSets \ call.postSets
        IN  /\ call.preSets = ConnectedBefore
            /\ Len(call.returned) = Cardinality(Range(call.returned))
            /\ (created # {} /\ call.args.name = None) =>
                  Range(call.returned) = created /\ Range(call.returned) \cap call.preSets = {}
            /\ (created # {} /\ call.args.name # None) =>
                  /\ Len(call.returned) = Cardinality(created)
                  /\ \A n \in Range(call.returned) :
                        /\ n \in DOMAIN members
                        /\ members[n] \cap Range(SelectionRead) # {}
            /\ (created = {} /\ gone # {}) => Range(call.returned) = gone
            /\ (created = {} /\ gone = {}) => call.returned = <<>>

\* The command created a set and made another disappear; only the created
\* one is returned.
C9_Witness ==
    /\ OPCall /\ call.outcome = "ok" /\ call.args.name = None
    /\ call.postSets \ call.preSets # {}
    /\ call.preSets \ call.postSets # {}
    /\ Range(call.returned) = call.postSets \ call.preSets

\* C10: when the selection the call reads is empty, it returns the empty
\* list; the renderer command is not invoked and connected sets are not
\* queried.
C10_EmptySelectionReturnsEarly ==
    (OPCall /\ SelectionRead = <<>>) =>
        /\ call.outcome = "ok"
        /\ call.returned = <<>>
        /\ \A i \in DOMAIN call.log :
              call.log[i].cmd \notin {"objectProperties", "getConnectedSets", "rename"}
        /\ nodeType = pre.nodeType /\ members = pre.members

\* An explicit empty nodes list over a selection that was not empty.
C10_Witness ==
    /\ OPCall
    /\ ~call.args.nodes.isNone /\ call.args.nodes.items = <<>>
    /\ pre.selection # <<>>
    /\ call.outcome = "ok" /\ call.returned = <<>>

(***************************************************************************)
(* Properties of core.py                                                   *)
(***************************************************************************)
CoreCallOf(fn) == call.api = "core" /\ call.fn = fn
CoreLog(cmd) == {i \in DOMAIN call.log : call.log[i].cmd = cmd}
CoreSceneUntouched == nodeType = pre.nodeType /\ attrs = pre.attrs

\* C11: vrayRender called with a camera name that does not exist in the scene
\* raises the not-found error; in that call the render command is never
\* invoked and the render-layer globals are not queried.
C11_MissingCameraRaises ==
    (CoreCallOf("vrayRender") /\ call.args.camera \notin DOMAIN pre.nodeType)
        => /\ call.outcome = "RuntimeError"
           /\ call.message = "Camera doesn't exist."
           /\ CoreLog("vrend") = {}
           /\ CoreLog("editRenderLayerGlobals") = {}
           /\ CoreSceneUntouched

C11_Witness ==
    /\ CoreCallOf("vrayRender")
    /\ call.args.camera = "ghost"
    /\ call.args.layer = None
    /\ call.outcome = "RuntimeError"

\* The layer the render command is given: the one passed, else the current
\* render layer of the scene the call started in.
C12_Layer ==
    IF call.fn = "vrayRender" /\ call.args.layer # None
    THEN call.args.layer
    ELSE pre.attrs[<<"renderLayerManager", "currentRenderLayer">>]

\* C12: for an existing camera vrayRender invokes the render command exactly
\* once with -camera, the camera, -layer, the layer, then -bake iff bake, then
\* -batch iff batch; an absent layer is the current render layer read at call
\* time; the render command's result is returned. vrayStartBake renders with
\* -camera persp -layer <current layer> -bake.
C12_RenderFlagsInOrder ==
    /\ (CoreCallOf("vrayRender") /\ call.args.camera \in DOMAIN pre.nodeType)
          => /\ Cardinality(CoreLog("vrend")) = 1
             /\ \A i \in CoreLog("vrend") :
                   LET f == call.log[i].arg
                       n == 4 + (IF call.args.bake THEN 1 ELSE 0)
                              + (IF call.args.batch THEN 1 ELSE 0)
                   IN  /\ Len(f) = n
                       /\ SubSeq(f, 1, 4) = <<"-camera", call.args.camera, "-layer", C12_Layer>>
                       /\ call.args.bake => f[5] = "-bake"
                       /\ call.args.batch => f[n] = "-batch"
                       /\ i = Len(call.log)
             /\ (call.args.layer = None) <=> (CoreLog("editRenderLayerGlobals") # {})
             /\ call.outcome = IF call.args.fail THEN "HostError" ELSE "ok"
             /\ call.outcome = "ok" => call.returned = call.args.res
    /\ (CoreCallOf("vrayStartBake") /\ "persp" \in DOMAIN pre.nodeType)
          => /\ Cardinality(CoreLog("vrend")) = 1
             /\ \A i \in CoreLog("vrend") :
                   call.log[i].arg = <<"-camera", "persp", "-layer", C12_Layer, "-bake">>
             /\ call.outcome = "ok" => call.returned = call.args.res

C12_Witness ==
    /\ CoreCallOf("vrayRender")
    /\ call.args.layer = None
    /\ call.args.bake
    /\ call.args.batch
    /\ call.outcome = "ok"
    /\ call.returned = "queued"

\* The candidates of a getRenderElements call: the render-element nodes of the
\* scene, or those among the given collection.
C13_Candidates ==
    {n \in DOMAIN pre.nodeType :
        /\ pre.nodeType[n] = RenderElementType
        /\ call.args.renderElements.isNone
              \/ n \in Range(call.args.renderElements.items)}

C13_FilterMembers ==
    IF call.args.vrayClassType.kind = "str"
    THEN {call.args.vrayClassType.text}
    ELSE Range(call.args.vrayClassType.items)

C13_NonEmptyFilter ==
    /\ call.args.vrayClassType.kind # "None"
    /\ call.args.vrayClassType.text # "" \/ call.args.vrayClassType.items # <<>>

C14_Without(i) ==
    [call.args EXCEPT !.kwargs = SubSeq(call.args.kwargs, 1, i - 1)
                                    \o SubSeq(call.args.kwargs, i + 1, Len(call.args.kwargs))]

C14_Unprefixed == {"Vray_bogus", "enabled", "vra"}

C15_ReachedKeywords ==
    /\ CoreCallOf("addRenderElement")
    /\ ~call.args.fail
    /\ call.args.suffix # None => call.args.vrayClassType = "MultiMatteElement"

C15_Prefixed == {"vray_redid_multimatte", "vray_name_diffuse", "vray_bogus"}

\* C15: a vray-prefixed keyword naming an attribute the created node does not
\* have gets one warning and no write; every other keyword pair is still
\* processed (each existing attribute written with its value) and the node
\* name is returned without an error.
C15_MissingAttributeWarns ==
    C15_ReachedKeywords
        => /\ call.outcome = "ok"
           /\ call.returned \in DOMAIN nodeType
           /\ \A i \in DOMAIN call.args.kwargs :
                 LET p == call.args.kwargs[i]
                     named(cmd) == {j \in CoreLog(cmd) : call.log[j].arg[2] = p.kw}
                 IN  p.kw \in C15_Prefixed
                        => IF <<call.returned, p.kw>> \in DOMAIN attrs
                           THEN /\ named("warning") = {}
                                /\ Cardinality(named("setAttr")) = 1
                                /\ \A j \in named("setAttr") :
                                      call.log[j].arg =
                                          <<call.returned, p.kw, p.value,
                                            IF p.isString THEN "string" ELSE "plain">>
                                /\ attrs[<<call.returned, p.kw>>] = p.value
                           ELSE /\ Cardinality(named("warning")) = 1
                                /\ named("setAttr") = {}

C15_Witness ==
    /\ C15_ReachedKeywords
    /\ Len(call.args.kwargs) = 2
    /\ call.args.kwargs[1].kw = "vray_bogus"
    /\ call.args.kwargs[2].kw = "vray_redid_multimatte"
    /\ call.outcome = "ok"
    /\ CoreLog("warning") # {}
    /\ attrs[<<call.returned, "vray_redid_multimatte">>] = "3"

\* The nodes the call added to the scene.
C16_NewNodes == DOMAIN nodeType \ DOMAIN pre.nodeType

\* C16: addRenderElement creates exactly one node of the requested class type;
\* a rename target renames the node before any attribute is written, so every
\* write addresses the renamed node and the returned name is the one the rename
\* reports; enabled is written (with false) iff enabled is false, and
\* vray_name_multimatte is written in string mode iff a suffix is given.
C16_CreateRenameThenWrite ==
    (CoreCallOf("addRenderElement") /\ ~call.args.fail)
        => /\ Cardinality(C16_NewNodes) = 1
           /\ \A n \in DOMAIN pre.nodeType : n \in DOMAIN nodeType /\ nodeType[n] = pre.nodeType[n]
           /\ Cardinality(CoreLog("mel.eval")) = 1
           /\ \A n \in C16_NewNodes :
                 /\ nodeType[n] = RenderElementType
                 /\ attrs[<<n, "vrayClassType">>] = call.args.vrayClassType
                 /\ call.outcome = "ok" => call.returned = n
                 /\ \A j \in CoreLog("setAttr") \cup CoreLog("objExists") \cup CoreLog("warning") :
                       call.log[j].arg[1] = n
                 /\ (\E j \in CoreLog("setAttr") :
                        call.log[j].arg = <<n, "enabled", "False", "plain">>)
                       <=> ~call.args.enabled
                 /\ call.outcome = "ok"
                       => attrs[<<n, "enabled">>] = IF call.args.enabled THEN "True" ELSE "False"
                 /\ (\E j \in CoreLog("setAttr") : call.log[j].arg[2] = "vray_name_multimatte")
                       <=> call.args.suffix # None
                 /\ \A j \in CoreLog("setAttr") :
                       call.log[j].arg[2] = "vray_name_multimatte"
                           => call.log[j].arg = <<n, "vray_name_multimatte",
                                                  call.args.suffix, "string">>
                 /\ IF call.args.name = None
                    THEN CoreLog("rename") = {}
                    ELSE /\ Cardinality(CoreLog("rename")) = 1
                         /\ n \in Range(ElementNames(call.args.name))
                         /\ \A j \in CoreLog("rename") :
                               /\ call.log[j].arg[2] = call.args.name
                               /\ \A k \in CoreLog("setAttr") : j < k

C16_Witness ==
    /\ CoreCallOf("addRenderElement")
    /\ call.outcome = "ok"
    /\ call.args.name = "beauty"
    /\ "beauty" \in DOMAIN pre.nodeType
    /\ call.returned = "beauty1"
    /\ ~call.args.enabled
    /\ call.args.suffix = "sfx"
    /\ attrs[<<"beauty1", "vray_name_multimatte">>] = "sfx"
    /\ call.args.kwargs # <<>>

(***************************************************************************)
(* Further properties of the attribute-group operations.                   *)
(***************************************************************************)

\* The not-found messages that name g: "No <what> found to apply the <g>
\* attribute [group] changes to."
C17_MessagesNaming(g) ==
    {"No " \o w \o " found to apply the " \o g \o t :
        w \in {"shapes", "meshes", "cameras", "materials", "transforms", "samplerInfo",
               "place2dTexture"},
        t \in {" attribute group changes to.", " attribute changes to."}}

\* C17: the not-found error of every attribute-group operation carries a
\* message that names the operation's own attribute group (by the group's
\* name or the operation's), not another operation's group and not a message
\* without a group name.
C17_MessageNamesOwnGroup ==
    (AttrCall /\ call.outcome = "RuntimeError")
        => call.message \in C17_MessagesNaming(CalledOp.group)
                               \cup C17_MessagesNaming(CalledOp.name)

\* The commands of the call, had the state been given as py.
C18_LogWith(py) ==
    RunAttrGroupOp(CalledOp, [call.args EXCEPT !.state = py],
                   [groups |-> pre.groups, attrs |-> pre.attrs]).log

\* C18: for every state the operation accepts, the state handed to
\* addAttributesFromGroup is 0 or 1; true and 1 give the same command
\* sequence, and so do false and 0.
C18_StateIsZeroOrOne ==
    (AttrCall /\ call.outcome # "TypeError")
        => /\ \A i \in LogIndexes("addAttributesFromGroup") : call.log[i].state \in {0, 1}
           /\ call.args.state.kind = "bool"
                 => call.log = C18_LogWith(PyInt(call.args.state.n))

\* The nodes of the group commands of the call, in the order issued.
C19_GroupCommandNodes ==
    LET idx == SelectSeq([i \in DOMAIN call.log |-> i],
                         LAMBDA i : call.log[i].cmd = "addAttributesFromGroup")
    IN  [j \in DOMAIN idx |-> call.log[idx[j]].node]

\* C19: a call issues for each node of its resolved collection exactly one
\* addAttributesFromGroup command with that node, the operation's fixed group
\* name and the converted state, and for no other node; vray_nurbsStaticGeom
\* passes the group name vray_nusrbsStaticGeom while its writes address
\* vrayAsStaticGeom, vrayMaxSubdivDepth and vrayFlatnessCoef.
C19_OneGroupCommandPerNode ==
    (AttrCall /\ call.outcome \in {"ok", "HostError"})
        => /\ call.outcome = "ok" => C19_GroupCommandNodes = call.resolved
           /\ Len(C19_GroupCommandNodes) <= Len(call.resolved)
           /\ C19_GroupCommandNodes = SubSeq(call.resolved, 1, Len(C19_GroupCommandNodes))
           /\ \A i \in LogIndexes("addAttributesFromGroup") :
                 /\ call.log[i].name = CalledOp.group
                 /\ call.log[i].state = _convert_state(call.args.state).n
           /\ call.op = "vray_nurbsStaticGeom"
                 => /\ \A i \in LogIndexes("addAttributesFromGroup") :
                          call.log[i].name = "vray_nusrbsStaticGeom"
                    /\ \A i \in LogIndexes("setAttr") :
                          call.log[i].name \in {"vrayAsStaticGeom", "vrayMaxSubdivDepth",
                                                "vrayFlatnessCoef"}
                    /\ call.outcome = "ok" /\ call.state # 0
                          => \A n \in Range(call.resolved), p \in call.args.kw :
                                \E i \in LogIndexes("setAttr") :
                                   call.log[i].node = n /\ call.log[i].name = p

C19_Witness ==
    /\ AttrCall
    /\ call.op = "vray_nurbsStaticGeom"
    /\ call.outcome = "ok"
    /\ Len(call.resolved) = 1
    /\ call.state = 1
    /\ call.args.kw = {"vrayAsStaticGeom", "vrayFlatnessCoef"}
    /\ <<call.resolved[1], "vray_nusrbsStaticGeom">> \in groups

\* C20: vray_arealight with state 1 and vrayInvisible given writes that value
\* to vrayStoreWithIrradianceMap of every resolved node and writes no
\* attribute named vrayInvisible.
C20_InvisibleWritesStoreWithIrradianceMap ==
    (AttrCall /\ call.op = "vray_arealight" /\ call.outcome = "ok" /\ call.state = 1
        /\ "vrayInvisible" \in call.args.kw)
        => /\ \A i \in LogIndexes("setAttr") : call.log[i].name # "vrayInvisible"
           /\ \A n \in Range(call.resolved) :
                 /\ \E i \in LogIndexes("setAttr") :
                       /\ call.log[i].node = n
                       /\ call.log[i].name = "vrayStoreWithIrradianceMap"
                       /\ call.log[i].value = ArgValue("vrayInvisible")
                 /\ attrs[<<n, "vrayStoreWithIrradianceMap">>] = ArgValue("vrayInvisible")

C20_Witness ==
    /\ AttrCall
    /\ call.op = "vray_arealight"
    /\ call.outcome = "ok"
    /\ call.state = 1
    /\ "vrayInvisible" \in call.args.kw
    /\ call.resolved # <<>>
    /\ \A n \in Range(call.resolved) : pre.nodeType[n] = "areaLight"

(***************************************************************************)
(* Properties of the light operations, of failures and of repeated calls.  *)
(***************************************************************************)
C21_LightOps == {"vray_light", "vray_directlight", "vray_pointLight", "vray_arealight"}

\* The writes of the call to an attribute of a node that carry a value.
C21_Writes(n, attr, value) ==
    {i \in LogIndexes("setAttr") :
        call.log[i].node = n /\ call.log[i].name = attr /\ call.log[i].value = value}

\* C21: in the four light operations with state 1 the vrayMBSamples parameter
\* is written to vrayOverrideMBSamples and never to vrayMBSamples; when both
\* vrayOverrideMBSamples and vrayMBSamples are given the vrayMBSamples write
\* comes last, so vrayOverrideMBSamples ends with the vrayMBSamples value on
\* every resolved node.
C21_MBSamplesWritesOverride ==
    (AttrCall /\ call.op \in C21_LightOps /\ call.outcome = "ok" /\ call.state = 1)
        => /\ \A i \in LogIndexes("setAttr") : call.log[i].name # "vrayMBSamples"
           /\ "vrayMBSamples" \in call.args.kw
                 => \A n \in Range(call.resolved) :
                       /\ Cardinality(C21_Writes(n, "vrayOverrideMBSamples",
                                                 ArgValue("vrayMBSamples"))) = 1
                       /\ attrs[<<n, "vrayOverrideMBSamples">>] = ArgValue("vrayMBSamples")
                       /\ "vrayOverrideMBSamples" \in call.args.kw
                             => \A i \in C21_Writes(n, "vrayOverrideMBSamples",
                                                    ArgValue("vrayOverrideMBSamples")),
                                   j \in C21_Writes(n, "vrayOverrideMBSamples",
                                                    ArgValue("vrayMBSamples")) : i < j

C21_Witness ==
    /\ AttrCall
    /\ call.op = "vray_directlight"
    /\ call.outcome = "ok"
    /\ call.state = 1
    /\ call.args.kw = {"vrayOverrideMBSamples", "vrayMBSamples"}
    /\ call.resolved # <<>>
    /\ \A n \in Range(call.resolved) :
          attrs[<<n, "vrayOverrideMBSamples">>] = "vrayMBSamples"

\* The commands of the call after its queries, as positions of the log.
C22_Commands == LogIndexes("addAttributesFromGroup") \cup LogIndexes("setAttr")

\* The position in the resolved collection of the node a command addresses.
C22_Position(i) == CHOOSE k \in DOMAIN call.resolved : call.resolved[k] = call.log[i].node

\* The node on which the call failed: the one of its last command.
C22_FailedAt == C22_Position(Len(call.log))

\* C22: when a command fails on the k-th resolved node the error propagates;
\* the nodes before it keep the group membership and every value written to
\* them, no command is issued for a later node, and the commands of a node all
\* come before the first command of the next node.
C22_FailureStopsLoopWithoutRollback ==
    (AttrCall /\ call.outcome \in {"ok", "HostError"})
        => /\ \A i \in C22_Commands : call.log[i].node \in Range(call.resolved)
           /\ \A i, j \in C22_Commands : i < j => C22_Position(i) <= C22_Position(j)
           /\ (call.args.failAt # 0) => call.outcome = "HostError"
           /\ call.outcome = "HostError"
                 => /\ Len(call.log) \in C22_Commands
                    /\ \A i \in C22_Commands : C22_Position(i) <= C22_FailedAt
                    /\ \A k \in 1..(C22_FailedAt - 1) :
                          LET n == call.resolved[k]
                              written == {i \in LogIndexes("setAttr") : call.log[i].node = n}
                          IN  /\ (<<n, CalledOp.group>> \in groups) <=> (call.state # 0)
                              /\ \E i \in LogIndexes("addAttributesFromGroup") :
                                    call.log[i].node = n
                              /\ \A i \in written :
                                    (\A j \in written :
                                        call.log[j].name = call.log[i].name => j <= i)
                                        => attrs[<<n, call.log[i].name>>] = call.log[i].value

C22_Witness ==
    /\ AttrCall
    /\ call.outcome = "HostError"
    /\ call.state = 1
    /\ C22_FailedAt = 2
    /\ Len(call.resolved) >= 2
    /\ call.args.kw # {}
    /\ \E i \in LogIndexes("setAttr") :
          /\ call.log[i].node = call.resolved[1]
          /\ attrs[<<call.resolved[1], call.log[i].name>>] = call.log[i].value
          /\ <<call.resolved[1], call.log[i].name>> \notin DOMAIN pre.attrs
    /\ <<call.resolved[1], CalledOp.group>> \in groups
    /\ <<call.resolved[1], CalledOp.group>> \notin pre.groups

\* The call as it would have run with smartConvert the other way.
C24_OtherWay ==
    RunAttrGroupOp(CalledOp, [call.args EXCEPT !.smartConvert = ~@],
                   [groups |-> pre.groups, attrs |-> pre.attrs])

\* The input of the call: the given list, else the selection.
C24_Input == IF call.args.shapes.isNone THEN pre.selection ELSE call.args.shapes.items

\* C24: for the file, texture, 2D-placement and sampler-info operations
\* smartConvert has no effect: the call issues the same commands on the same
\* nodes as the call with smartConvert the other way, namely on the input (or
\* the selection) filtered by the operation's valid types.
C24_SmartConvertIgnoredByNodeOps ==
    (AttrCall /\ CalledOp.family = "nodes")
        => /\ C24_OtherWay.log = call.log
           /\ C24_OtherWay.outcome = call.outcome
           /\ C24_OtherWay.scene = [groups |-> groups, attrs |-> attrs]
           /\ call.outcome \in {"ok", "HostError"}
                 => /\ call.resolved =
                          SelectSeq(C24_Input,
                                    LAMBDA n : /\ n \in DOMAIN pre.nodeType
                                               /\ pre.nodeType[n] \in Range(CalledOp.validTypes))
                    /\ \A i \in C22_Commands : call.log[i].node \in Range(call.resolved)

C24_Witness ==
    /\ AttrCall
    /\ CalledOp.family = "nodes"
    /\ call.args.smartConvert # CalledOp.smartConvert
    /\ call.outcome = "ok"
    /\ call.args.kw # {}
    /\ Len(call.resolved) < Len(C24_Input)
    /\ LogIndexes("setAttr") # {}

\* The transform-type nodes of the input of a vray_skip_export call.
C25_InputTransforms ==
    {n \in Range(C24_Input) : n \in DOMAIN pre.nodeType /\ pre.nodeType[n] = "transform"}

\* The parent transforms of the shape nodes of the input.
C25_ShapeParents ==
    {ParentOf(s) : s \in {n \in Range(C24_Input) :
                            n \in DOMAIN pre.nodeType /\ IsShape(n) /\ ParentOf(n) # None}}

C25_Targets ==
    IF call.args.smartConvert THEN C25_InputTransforms \cup C25_ShapeParents
    ELSE C25_InputTransforms

\* C25: vray_skip_export with smartConvert false targets exactly the
\* transform-type nodes of the input and not the parent of an input shape;
\* with smartConvert true it targets those together with the parent transform
\* of every shape of the input. No shape node receives the group.
C25_SkipExportTargets ==
    (AttrCall /\ call.op = "vray_skip_export" /\ call.outcome # "TypeError")
        => /\ (call.outcome = "RuntimeError") <=> (C25_Targets = {})
           /\ call.outcome \in {"ok", "HostError"}
                 => /\ Range(call.resolved) = C25_Targets
                    /\ ~call.args.smartConvert
                          => call.resolved =
                                SelectSeq(C24_Input, LAMBDA n : n \in C25_InputTransforms)
           /\ \A i \in C22_Commands :
                 call.log[i].node \in C25_Targets /\ ~IsShape(call.log[i].node)
           /\ \A g \in groups \ pre.groups :
                 g[1] \in C25_Targets /\ g[2] = "vray_skip_export"
           /\ (call.outcome = "ok" /\ call.state # 0)
                 => \A n \in C25_Targets : <<n, "vray_skip_export">> \in groups

C25_Witness ==
    /\ AttrCall
    /\ call.op = "vray_skip_export"
    /\ call.args.smartConvert
    /\ call.outcome = "ok"
    /\ call.state = 1
    /\ C25_InputTransforms = {}
    /\ call.resolved = <<"xf">>
    /\ "shp" \in Range(C24_Input)
    /\ <<"xf", "vray_skip_export">> \in groups \ pre.groups

\* The parents of the shapes of a given list, once each, in the order of the
\* shapes.
C30_Parents ==
    Unique(SelectSeq([i \in DOMAIN call.args.shapes.items |->
                         IF call.args.shapes.items[i] \in DOMAIN pre.nodeType
                            /\ IsShape(call.args.shapes.items[i])
                         THEN ParentOf(call.args.shapes.items[i]) ELSE None],
                     LAMBDA p : p # None))

\* C30: vray_skip_export with smartConvert true and a caller's list that holds
\* shape nodes extends that list in place with the shapes' parents, so the
\* list is longer after the call; every other operation, and vray_skip_export
\* with smartConvert false, leaves the caller's list as it was.
C30_SkipExportExtendsCallerList ==
    (AttrCall /\ ~call.args.shapes.isNone)
        => IF call.op = "vray_skip_export" /\ call.args.smartConvert
              /\ call.outcome # "TypeError"
           THEN /\ call.list.items = call.args.shapes.items \o C30_Parents
                /\ C30_Parents # <<>> => Len(call.list.items) > Len(call.args.shapes.items)
           ELSE call.list = call.args.shapes

C30_Witness ==
    /\ AttrCall
    /\ call.op = "vray_skip_export"
    /\ call.args.smartConvert
    /\ call.args.shapes = ListOf(<<"tex", "shp">>)
    /\ call.list = ListOf(<<"tex", "shp", "xf">>)

(***************************************************************************)
(* Properties of a function called twice.                                  *)
(***************************************************************************)
\* The second call was made: prev is the first call, pre the scene between
\* the two.
C23_SecondCall == call.api = "attributes" /\ prev.api = "attributes"

\* The attributes the second call's parameters write.
C23_WrittenBySecond ==
    {CalledOp.params[i].attr :
        i \in {j \in DOMAIN CalledOp.params : CalledOp.params[j].param \in call.args.kw}}

\* C23: after a call that added the group and gave an attribute a value, the
\* same call on the same nodes with a true state and without a parameter for
\* that attribute leaves the group present and the attribute at that value;
\* a call repeated with identical arguments leaves the scene as the first
\* call left it.
C23_RepeatKeepsValues ==
    C23_SecondCall
        => /\ (prev.outcome = "ok" /\ prev.state # 0)
                 => /\ call.outcome = "ok"
                    /\ \A n \in Range(call.resolved) :
                          /\ <<n, CalledOp.group>> \in groups
                          /\ \A k \in DOMAIN pre.attrs :
                                (k[1] = n /\ k[2] \notin C23_WrittenBySecond)
                                    => k \in DOMAIN attrs /\ attrs[k] = pre.attrs[k]
           /\ call.args.kw = prev.args.kw
                 => /\ groups = pre.groups
                    /\ attrs = pre.attrs
                    /\ call.outcome = prev.outcome
           /\ nodeType = pre.nodeType
           /\ selection = pre.selection

C23_Witness ==
    /\ C23_SecondCall
    /\ prev.outcome = "ok"
    /\ prev.state = 1
    /\ call.op = "vray_subdivision"
    /\ prev.args.kw = {"vraySubdivEnable", "vraySubdivUVs"}
    /\ call.args.kw = {"vraySubdivUVs"}
    /\ call.outcome = "ok"
    /\ \A n \in Range(call.resolved) :
          /\ <<n, "vray_subdivision">> \in groups
          /\ attrs[<<n, "vraySubdivEnable">>] = ArgValue("vraySubdivEnable")

(***************************************************************************)
(* Further properties of objectProperties.                                 *)
(***************************************************************************)
OPLog(cmd) == {i \in DOMAIN call.log : call.log[i].cmd = cmd}

\* The renderer command of the call ran to its end.
CommandRan == OPLog("objectProperties") # {} /\ call.args.fail # "vray"

\* The selection as the renderer's command leaves it in a call without nodes.
C26_AfterCommand ==
    IF CommandRan
    THEN VrayObjectProperties(SceneOf(pre.nodeType, pre.selection, pre.members),
                              call.args.cmd, TypeOfCall(call), renderer).selection
    ELSE pre.selection

\* C26: without a nodes argument objectProperties issues no selection-changing
\* command itself: it reads the current selection, hands it unmodified to the
\* connected-set queries, and the selection on return is the one the
\* renderer's command left (a selected set that the call renamed is selected
\* under its new name).
C26_NoNodesLeavesSelectionToRenderer ==
    (OPCall /\ call.args.nodes.isNone)
        => /\ OPLog("select") = {} /\ OPLog("select_clear") = {}
           /\ call.sel = pre.selection
           /\ \A i \in OPLog("getConnectedSets") : call.log[i].arg = pre.selection
           /\ Len(selection) = Len(C26_AfterCommand)
           /\ \A i \in DOMAIN selection :
                 \/ selection[i] = C26_AfterCommand[i]
                 \/ /\ call.outcome = "ok"
                    /\ selection[i] \in Range(call.returned)
                    /\ \E j \in OPLog("rename") : call.log[j].arg[1] = C26_AfterCommand[i]

C26_Witness ==
    /\ OPCall
    /\ call.args.nodes.isNone
    /\ call.args.cmd = "add_single"
    /\ call.outcome = "ok"
    /\ renderer.selectsNew
    /\ pre.selection # <<>>
    /\ selection # pre.selection
    /\ Cardinality(OPLog("getConnectedSets")) = 2

\* The overriding selection as the renderer's command leaves it.
C27_AfterCommand ==
    IF CommandRan
    THEN VrayObjectProperties(SceneOf(pre.nodeType, call.args.nodes.items, pre.members),
                              call.args.cmd, TypeOfCall(call), renderer).selection
    ELSE call.args.nodes.items

C28_Renames ==
    LET IsRename(c) == c.cmd = "rename"
    IN  SelectSeq(call.log, IsRename)

\* The scene as the renderer's command leaves it.
C28_SceneAfterCommand ==
    LET before == SceneOf(pre.nodeType, pre.selection, pre.members)
        read == IF call.args.nodes.isNone THEN before
                ELSE SelectReplace(before, call.args.nodes.items)
    IN  VrayObjectProperties(read, call.args.cmd, TypeOfCall(call), renderer)

\* C28: when the call creates sets and a name is given, one rename to that
\* very name is issued for each created set, and the list returned holds,
\* entry by entry, the names those renames report (the name, or the name with
\* the first free number); without a name no rename is issued and the created
\* names are returned.
C28_RenamesEveryCreatedSet ==
    (OPCall /\ call.outcome = "ok" /\ call.postSets \ call.preSets # {}) =>
        LET created == call.postSets \ call.preSets
            renames == C28_Renames
        IN  /\ call.args.name = None =>
                 /\ renames = <<>>
                 /\ Range(call.returned) = created
            /\ call.args.name # None =>
                 /\ Len(renames) = Cardinality(created)
                 /\ {renames[i].arg[1] : i \in DOMAIN renames} = created
                 /\ \A i \in DOMAIN renames : renames[i].arg[2] = call.args.name
                 /\ Len(call.returned) = Len(renames)
                 /\ call.returned =
                       RenameAll(C28_SceneAfterCommand,
                                 [i \in DOMAIN renames |-> renames[i].arg[1]],
                                 call.args.name, 1).names
                 /\ \A i \in DOMAIN call.returned :
                       /\ call.returned[i] \in Range(Series(call.args.name))
                       /\ call.returned[i] \in DOMAIN nodeType
                       /\ nodeType[call.returned[i]] = TypeOfCall(call)
                       /\ \A j \in DOMAIN call.returned :
                             call.returned[i] = call.returned[j] => i = j

\* Two sets created by add_multiple and renamed to a name none of them had.
C28_Witness ==
    /\ OPCall /\ call.outcome = "ok"
    /\ call.args.cmd = "add_multiple"
    /\ call.args.name = "props"
    /\ Cardinality(call.postSets \ call.preSets) = 2
    /\ Len(C28_Renames) = 2
    /\ Len(call.returned) = 2
    /\ call.returned[1] = "props"
    /\ call.returned[2] # "props"
    /\ Range(call.returned) \cap (call.postSets \ call.preSets) = {}

(***************************************************************************)
(* getRenderElements with an empty filter.                                 *)
(***************************************************************************)
\* The filter of the call is an empty string or an empty tuple or list.
C29_EmptyFilter ==
    /\ call.args.vrayClassType.kind \in {"str", "tuple", "list"}
    /\ call.args.vrayClassType.text = ""
    /\ call.args.vrayClassType.items = <<>>

\* C29: getRenderElements with a class-type filter that is an empty string or
\* an empty collection filters nothing: it returns every candidate
\* render-element node, the list the same call returns without a filter, and
\* reads no class-type attribute.
C29_EmptyFilterIsNoFilter ==
    (CoreCallOf("getRenderElements") /\ C29_EmptyFilter) =>
        /\ call.outcome = "ok"
        /\ call.list = RunGetRenderElements(CoreScene, call.args.renderElements, NoFilter).list
        /\ Range(call.list) = C13_Candidates
        /\ CoreLog("getAttr") = {}
        /\ CoreSceneUntouched

\* An empty tuple as filter over candidates of two different class types.
C29_Witness ==
    /\ CoreCallOf("getRenderElements")
    /\ call.args.vrayClassType = TupleFilter(<<>>)
    /\ Len(call.list) >= 2
    /\ \E i, j \in DOMAIN call.list :
          pre.attrs[<<call.list[i], "vrayClassType">>]
              # pre.attrs[<<call.list[j], "vrayClassType">>]
=============================================================================
